---- MODULE Spec2Model ----
(***************************************************************************)
(* Model of git-tag-similarity: the Jaccard similarity engine              *)
(* (similarity.go), the history resolver (internal/repository.go) and the  *)
(* comparison orchestrator (internal/compare.go).                          *)
(*                                                                         *)
(* The specifications of the module:                                       *)
(*   SpecJaccard  CalculateJaccardSimilarity applied to bounded commit     *)
(*                sets, in both argument orders;                           *)
(*   Spec         one Compare call, stage by stage, and the printing of    *)
(*                its result, against a bounded repository (commit DAG,    *)
(*                tag objects, tag references);                            *)
(*   SpecCompareFiltered  the same call with a directory filter given;     *)
(*   SpecPath     pathInDirectory applied to bounded strings;              *)
(*   SpecHistory  the plain and the directory-filtered history of a tag;   *)
(*   SpecResolve  the two histories and GetDiffBetweenTags on tags of      *)
(*                every kind;                                              *)
(*   SpecReport   one GenerateReport call;                                 *)
(*   SpecConfig   Validate, ValidateWithRepository and GetTagReference     *)
(*                called directly;                                         *)
(*   SpecConfigCommand  one RunConfigCommand call.                         *)
(*                                                                         *)
(* The repository is well formed as far as commits go: every parent of a   *)
(* commit is in the object store.  A tag reference may point at any kind   *)
(* of object.                                                              *)
(***************************************************************************)
EXTENDS Integers, FiniteSets, Sequences, TLC

(***************************************************************************)
(* Bounds                                                                  *)
(***************************************************************************)
\* commit hashes available to the sets handed to CalculateJaccardSimilarity
NumHashes == 5

\* commits in the repository's object store (hashes 1..NumCommits)
NumCommits == 3

\* longest chain of annotated tag objects between a reference and its target
MaxTagDepth == 2

\* longest path and directory string drawn for pathInDirectory
MaxPathLen == 3

\* longest tag list a mock repository returns
MaxMockTags == 2

(***************************************************************************)
(* float64 values.  The only floats the program produces are the literals  *)
(* 0.0 and 1.0 and quotients float64(n)/float64(d) of small non-negative   *)
(* integers.  IEEE division is correctly rounded, so two such quotients    *)
(* are the same float exactly when they are the same rational: a float is  *)
(* modelled by its fraction in lowest terms, and x/0 by NaN or +Inf.       *)
(***************************************************************************)
RECURSIVE GCD(_, _)
GCD(a, b) == IF b = 0 THEN a ELSE GCD(b, a % b)

FloatOne == [num |-> 1, den |-> 1]

FloatZero == [num |-> 0, den |-> 1]

FloatNaN == [num |-> 0, den |-> 0]

FloatInf == [num |-> 1, den |-> 0]

FloatDiv(n, d) ==
    IF d = 0
    THEN (IF n = 0 THEN FloatNaN ELSE FloatInf)
    ELSE [num |-> n \div GCD(n, d), den |-> d \div GCD(n, d)]

\* x <= y on floats that are not NaN/Inf
FloatLeq(x, y) == x.den > 0 /\ y.den > 0 /\ x.num * y.den <= y.num * x.den

(***************************************************************************)
(* map[plumbing.Hash]struct{}: a nil map and an empty map are different    *)
(* values with the same length and the same (empty) range.                 *)
(***************************************************************************)
NilMap == [isNil |-> TRUE, keys |-> {}]

MakeMap == [isNil |-> FALSE, keys |-> {}]

MapOf(s) == [isNil |-> FALSE, keys |-> s]

MapLen(m) == Cardinality(m.keys)

MapPut(m, h) == [isNil |-> FALSE, keys |-> m.keys \cup {h}]

\* for hash := range src { dst[hash] = struct{}{} }
RECURSIVE PutAll(_, _)
PutAll(dst, src) ==
    IF src = {} THEN dst
    ELSE LET hash == CHOOSE h \in src : TRUE
         IN PutAll(MapPut(dst, hash), src \ {hash})

\* for hash := range src { if _, ok := other[hash]; ok == want { dst[hash] = struct{}{} } }
RECURSIVE PutWhere(_, _, _, _)
PutWhere(dst, src, other, want) ==
    IF src = {} THEN dst
    ELSE LET hash == CHOOSE h \in src : TRUE
             ok == hash \in other.keys
         IN PutWhere(IF ok = want THEN MapPut(dst, hash) ELSE dst,
                     src \ {hash}, other, want)

(***************************************************************************)
(* Similarity engine                                                       *)
(***************************************************************************)
\* faulty variant: the guard for two empty sets is dropped
JaccardNoEmptyGuard(setA, setB) ==
    LET union == PutAll(PutAll(MakeMap, setA.keys), setB.keys)
    IN IF MapLen(union) = 0 THEN FloatZero
       ELSE LET intersection == PutWhere(MakeMap, setA.keys, setB, TRUE)
            IN FloatDiv(MapLen(intersection), MapLen(union))

\* faulty variant: the empty guard fires when either set is empty (|| for &&)
JaccardEitherEmpty(setA, setB) ==
    IF MapLen(setA) = 0 \/ MapLen(setB) = 0 THEN FloatOne
    ELSE LET union == PutAll(PutAll(MakeMap, setA.keys), setB.keys)
         IN IF MapLen(union) = 0 THEN FloatZero
            ELSE LET intersection == PutWhere(MakeMap, setA.keys, setB, TRUE)
                 IN FloatDiv(MapLen(intersection), MapLen(union))

\* faulty variant: the divisor is len(setA), not the size of the union
JaccardOverFirst(setA, setB) ==
    IF MapLen(setA) = 0 /\ MapLen(setB) = 0 THEN FloatOne
    ELSE LET union == PutAll(PutAll(MakeMap, setA.keys), setB.keys)
         IN IF MapLen(union) = 0 THEN FloatZero
            ELSE LET intersection == PutWhere(MakeMap, setA.keys, setB, TRUE)
                 IN FloatDiv(MapLen(intersection), MapLen(setA))

\* faulty variant: the union is counted as len(setA) + len(setB)
JaccardSumUnion(setA, setB) ==
    IF MapLen(setA) = 0 /\ MapLen(setB) = 0 THEN FloatOne
    ELSE LET intersection == PutWhere(MakeMap, setA.keys, setB, TRUE)
         IN FloatDiv(MapLen(intersection), MapLen(setA) + MapLen(setB))

\* faulty variant: the operands of the division are swapped
JaccardSwappedDivision(setA, setB) ==
    IF MapLen(setA) = 0 /\ MapLen(setB) = 0 THEN FloatOne
    ELSE LET union == PutAll(PutAll(MakeMap, setA.keys), setB.keys)
         IN IF MapLen(union) = 0 THEN FloatZero
            ELSE LET intersection == PutWhere(MakeMap, setA.keys, setB, TRUE)
                 IN FloatDiv(MapLen(union), MapLen(intersection))

\* faulty variant: the intersection loop keeps the hashes of setA that setB lacks
JaccardDifference(setA, setB) ==
    IF MapLen(setA) = 0 /\ MapLen(setB) = 0 THEN FloatOne
    ELSE LET union == PutAll(PutAll(MakeMap, setA.keys), setB.keys)
         IN IF MapLen(union) = 0 THEN FloatZero
            ELSE LET intersection == PutWhere(MakeMap, setA.keys, setB, FALSE)
                 IN FloatDiv(MapLen(intersection), MapLen(union))

CalculateJaccardSimilarity(setA, setB) ==
    IF MapLen(setA) = 0 /\ MapLen(setB) = 0 THEN FloatOne
    ELSE LET union == PutAll(PutAll(MakeMap, setA.keys), setB.keys)
         IN IF MapLen(union) = 0 THEN FloatZero
            ELSE LET intersection == PutWhere(MakeMap, setA.keys, setB, TRUE)
                 IN FloatDiv(MapLen(intersection), MapLen(union))


(***************************************************************************)
(* State                                                                   *)
(***************************************************************************)
VARIABLES
    \* SpecJaccard: the two arguments, the calls made so far, and the
    \* results of CalculateJaccardSimilarity(setA, setB) and (setB, setA)
    setA, setB, calls, simAB, simBA,
    \* the repository on disk: object store, tag references, the tree of
    \* every commit; and the git binary that exec.Command("git", ...) starts
    objects, tagRefs, trees, gitVersion,
    \* one Compare call: its argument, its position, its locals, its returns
    config, pc, repo, fetchCalls, tag1Ref, tag2Ref, tag1Commits, tag2Commits,
    result, err,
    \* the directory filter (the -d option), "" when none is given
    directoryFilter,
    \* direct calls of GetCommitSetForTag and GetCommitSetForTagFilteredByDirectory
    \* on the first tag reference: which returned, and what
    histCalls, plainCommits, plainErr, filteredCommits, filteredErr,
    \* a direct call of GetDiffBetweenTags on the first two tag references:
    \* its returns (the changed files of the --stat text)
    diffStat, diffErr,
    \* one pathInDirectory call: its path argument, whether it returned, its return
    filePath, pathCalled, pathResult,
    \* one GenerateReport call: the config file in the home directory, whether
    \* the AI service answers and whether the report file can be written; how
    \* the call ended, its return, its warning, whether it reached the service
    \* and whether it wrote the report
    configFile, apiResponds, writeSucceeds,
    reportState, reportErr, warning, remoteCalled, fileWritten,
    \* direct calls of Validate, ValidateWithRepository and GetTagReference on
    \* config and a repository: which returned, and what (with the number of
    \* FetchAllTags calls ValidateWithRepository made, and the arguments of
    \* GetTagReference)
    directCalls, validateErr, vwrErr, vwrFetches, gtrName, gtrFetchOk, gtrRef, gtrErr,
    \* one RunConfigCommand call: its argument, the state of the home
    \* directory, the config file it leaves, how it ended, its return, and
    \* what it wrote to standard output
    cmdConfig, homeDir, savedConfig, cmdState, cmdErr, cmdOutput,
    \* what PrintCompareResult wrote to standard output
    output

jvars == <<setA, setB, calls, simAB, simBA>>

repovars == <<objects, tagRefs, trees, gitVersion>>

cvars == <<config, pc, repo, fetchCalls, tag1Ref, tag2Ref, tag1Commits,
           tag2Commits, result, err>>

fvars == <<directoryFilter, histCalls, plainCommits, plainErr,
           filteredCommits, filteredErr, diffStat, diffErr>>

pvars == <<filePath, pathCalled, pathResult>>

renv == <<configFile, apiResponds, writeSucceeds>>

rvars == <<renv, reportState, reportErr, warning, remoteCalled, fileWritten>>

dvars == <<directCalls, validateErr, vwrErr, vwrFetches, gtrName, gtrFetchOk,
           gtrRef, gtrErr>>

kvars == <<cmdConfig, homeDir, savedConfig, cmdState, cmdErr, cmdOutput>>

\* what the Compare call itself does not write
auxvars == <<fvars, pvars, rvars, dvars, kvars>>

vars == <<jvars, repovars, cvars, auxvars, output>>

(***************************************************************************)
(* error values: errors.Join(a, b) keeps both chains, errors.Is(e, x)      *)
(* finds x anywhere in the chain, nil is the empty chain.                  *)
(***************************************************************************)
Nil == <<>>

Err(kind, arg) == <<[kind |-> kind, arg |-> arg]>>

Join(a, b) == a \o b

ErrorsIs(e, kind) == \E i \in DOMAIN e : e[i].kind = kind

ErrorNames(e, kind, arg) == \E i \in DOMAIN e : e[i].kind = kind /\ e[i].arg = arg

(***************************************************************************)
(* Strings are sequences of one-character strings: "src" is <<"s","r","c">>*)
(* and "" is << >>.                                                        *)
(***************************************************************************)
EmptyString == << >>

HistoryIdle ==
    /\ histCalls = {}
    /\ plainCommits = NilMap
    /\ plainErr = Nil
    /\ filteredCommits = NilMap
    /\ filteredErr = Nil
    /\ diffStat = {}
    /\ diffErr = Nil

FilterIdle ==
    /\ directoryFilter = EmptyString
    /\ HistoryIdle

PathIdle ==
    /\ filePath = EmptyString
    /\ pathCalled = FALSE
    /\ pathResult = FALSE

\* nothing printed
NoOutput ==
    [summary |-> FALSE, total1 |-> 0, total2 |-> 0, shared |-> 0,
     unique1 |-> 0, unique2 |-> 0, listed1 |-> 0, listed2 |-> 0]

PrintIdle == output = NoOutput

DirectIdle ==
    /\ directCalls = {}
    /\ validateErr = Nil
    /\ vwrErr = Nil
    /\ vwrFetches = 0
    /\ gtrName = ""
    /\ gtrFetchOk = FALSE
    /\ gtrRef = [name |-> [prefix |-> "", short |-> ""], hash |-> 0]
    /\ gtrErr = Nil

NoAIConfig == [Provider |-> "", APIKey |-> ""]

\* no config file written, nothing printed by the config command
NoSavedConfig == [Provider |-> "", APIKey |-> EmptyString]

NoCommandOutput == [saved |-> FALSE, provider |-> "", keyHead |-> EmptyString,
                    keyTail |-> EmptyString]

ConfigCommandIdle ==
    /\ cmdConfig = NoSavedConfig
    /\ homeDir = "ok"
    /\ savedConfig = NoSavedConfig
    /\ cmdState = "idle"
    /\ cmdErr = Nil
    /\ cmdOutput = NoCommandOutput

ReportIdle ==
    /\ configFile = [state |-> "missing", config |-> NoAIConfig]
    /\ apiResponds = FALSE
    /\ writeSucceeds = FALSE
    /\ reportState = "idle"
    /\ reportErr = Nil
    /\ warning = "none"
    /\ remoteCalled = FALSE
    /\ fileWritten = FALSE

(***************************************************************************)
(* SpecJaccard                                                             *)
(***************************************************************************)
JHashes == 1..NumHashes

JMaps == {NilMap} \cup {MapOf(s) : s \in SUBSET JHashes}

CompareIdle ==
    /\ objects = << >>
    /\ tagRefs = << >>
    /\ trees = << >>
    /\ gitVersion = "modern"
    /\ config = [RepoPath |-> "", Tag1Name |-> "", Tag2Name |-> "", Verbose |-> FALSE]
    /\ pc = "idle"
    /\ repo = "nil"
    /\ fetchCalls = 0
    /\ tag1Ref = [name |-> [prefix |-> "", short |-> ""], hash |-> 0]
    /\ tag2Ref = [name |-> [prefix |-> "", short |-> ""], hash |-> 0]
    /\ tag1Commits = NilMap
    /\ tag2Commits = NilMap
    /\ result = [Repo |-> "nil", Config |-> config, Similarity |-> FloatZero,
                 SharedCommits |-> NilMap, OnlyInTag1 |-> NilMap, OnlyInTag2 |-> NilMap]
    /\ err = Nil

JInit ==
    /\ setA \in JMaps
    /\ setB \in JMaps
    /\ calls = {}
    /\ simAB = FloatZero
    /\ simBA = FloatZero
    /\ CompareIdle
    /\ FilterIdle
    /\ PathIdle
    /\ ReportIdle
    /\ DirectIdle
    /\ PrintIdle
    /\ ConfigCommandIdle

\* similarity := CalculateJaccardSimilarity(setA, setB)
CallJaccard ==
    /\ "AB" \notin calls
    /\ simAB' = CalculateJaccardSimilarity(setA, setB)
    /\ calls' = calls \cup {"AB"}
    /\ UNCHANGED <<setA, setB, simBA, repovars, cvars, auxvars, output>>

\* the same call with the arguments exchanged
CallJaccardSwapped ==
    /\ "BA" \notin calls
    /\ simBA' = CalculateJaccardSimilarity(setB, setA)
    /\ calls' = calls \cup {"BA"}
    /\ UNCHANGED <<setA, setB, simAB, repovars, cvars, auxvars, output>>

JNext == CallJaccard \/ CallJaccardSwapped

SpecJaccard == JInit /\ [][JNext]_vars


(***************************************************************************)
(* Similarity engine: properties (checked under SpecJaccard)               *)
(***************************************************************************)
\* C1: for commit sets A and B that are not both empty,
\* CalculateJaccardSimilarity(A, B) is |A \cap B| / |A \cup B|; in particular
\* {1,2} vs {2,3} is 1/3, {1,2} vs {1,2,3,4} is 1/2, {1,2,3} vs {3,4,5} is 1/5.
C1_JaccardIsIntersectionOverUnion ==
    ("AB" \in calls /\ ~(setA.keys = {} /\ setB.keys = {})) =>
        /\ simAB.den > 0
        /\ simAB.num * Cardinality(setA.keys \cup setB.keys)
             = simAB.den * Cardinality(setA.keys \cap setB.keys)
        /\ (setA.keys = {1, 2} /\ setB.keys = {2, 3})
             => simAB = [num |-> 1, den |-> 3]
        /\ (setA.keys = {1, 2} /\ setB.keys = {1, 2, 3, 4})
             => simAB = [num |-> 1, den |-> 2]
        /\ (setA.keys = {1, 2, 3} /\ setB.keys = {3, 4, 5})
             => simAB = [num |-> 1, den |-> 5]

C1_Witness ==
    /\ "AB" \in calls
    /\ setA.keys = {1, 2, 3}
    /\ setB.keys = {3, 4, 5}
    /\ simAB = [num |-> 1, den |-> 5]

\* C2: CalculateJaccardSimilarity of two empty commit sets is 1.0.
C2_BothEmptyIsOne ==
    ("AB" \in calls /\ setA.keys = {} /\ setB.keys = {}) => simAB = FloatOne

C2_Witness ==
    /\ "AB" \in calls
    /\ setA = MakeMap
    /\ setB = MakeMap
    /\ simAB = FloatOne

\* C3: for a non-empty A, CalculateJaccardSimilarity(A, {}) and
\* CalculateJaccardSimilarity({}, A) are both 0.0.
C3_OneEmptyIsZero ==
    (setA.keys # {} /\ setB.keys = {}) =>
        /\ "AB" \in calls => simAB = FloatZero
        /\ "BA" \in calls => simBA = FloatZero

C3_Witness ==
    /\ calls = {"AB", "BA"}
    /\ setA.keys = {1, 2}
    /\ setB.keys = {}
    /\ simAB = FloatZero
    /\ simBA = FloatZero

\* C4: symmetry: the result for (A, B) is the result for (B, A).
C4_Symmetric ==
    calls = {"AB", "BA"} => simAB = simBA

C4_Witness ==
    /\ calls = {"AB", "BA"}
    /\ setA.keys = {1, 2}
    /\ setB.keys = {1, 2, 3, 4}
    /\ simAB = [num |-> 1, den |-> 2]
    /\ simBA = [num |-> 1, den |-> 2]

\* C5: for every commit set A, empty or not, CalculateJaccardSimilarity(A, A)
\* is 1.0.
C5_SelfIsOne ==
    ("AB" \in calls /\ setA = setB) => simAB = FloatOne

C5_Witness ==
    /\ "AB" \in calls
    /\ setA = setB
    /\ setA.keys = {1, 2, 3}
    /\ simAB = FloatOne

\* C6: the result lies in [0,1]: the division is never by zero (the result is
\* neither NaN nor Inf) and the intersection count never exceeds the union
\* count.
C6_ResultInUnitInterval ==
    "AB" \in calls =>
        /\ simAB.den > 0
        /\ FloatLeq(FloatZero, simAB)
        /\ FloatLeq(simAB, FloatOne)

C6_Witness ==
    /\ "AB" \in calls
    /\ setA.keys # {}
    /\ setB.keys # {}
    /\ simAB # FloatZero
    /\ simAB # FloatOne
    /\ FloatLeq(simAB, FloatOne)


(***************************************************************************)
(* The repository on disk.                                                 *)
(*                                                                         *)
(* The object store maps a hash to a commit (with its parents, oldest hash *)
(* first), an annotated tag object (with the type and hash of its target)  *)
(* or a blob.  Commits are 1..NumCommits and form a DAG: the parents of a  *)
(* commit have smaller hashes.  A tag reference is absent, or points at    *)
(* the top of a chain of 0..MaxTagDepth annotated tag objects that ends in *)
(* a commit or in the blob (depth 0 is a lightweight tag).                 *)
(***************************************************************************)
Commits == 1..NumCommits

BlobHash == NumCommits + 1

TagShortNames == <<"v1", "v2">>

TagObjHash(i, k) == NumCommits + 1 + (i - 1) * MaxTagDepth + k

RECURSIVE SetToSeq(_)
SetToSeq(S) ==
    IF S = {} THEN << >>
    ELSE LET m == CHOOSE x \in S : \A y \in S : x <= y
         IN <<m>> \o SetToSeq(S \ {m})

CommitObj(ps) == [type |-> "commit", parents |-> SetToSeq(ps), targetType |-> "", target |-> 0]

TagObj(tt, t) == [type |-> "tag", parents |-> << >>, targetType |-> tt, target |-> t]

BlobObj == [type |-> "blob", parents |-> << >>, targetType |-> "", target |-> 0]

Dags == {p \in [Commits -> SUBSET Commits] : \A c \in Commits : p[c] \subseteq 1..(c - 1)}

Chains == {c \in [present : BOOLEAN, depth : 0..MaxTagDepth, final : Commits \cup {BlobHash}] :
              ~c.present => (c.depth = 0 /\ c.final = 1)}

TagChains == [DOMAIN TagShortNames -> Chains]

ChainRefHash(c, i) ==
    IF c.depth = 0 THEN c.final ELSE TagObjHash(i, c.depth)

\* the commits of a DAG and the blob, as objects
CommitStore(p) ==
    [h \in Commits \cup {BlobHash} |->
        IF h = BlobHash THEN BlobObj ELSE CommitObj(p[h])]

\* the annotated tag objects of the chain behind reference i
ChainStore(c, i) ==
    [h \in {TagObjHash(i, k) : k \in 1..(IF c.present THEN c.depth ELSE 0)} |->
        IF h = TagObjHash(i, 1)
        THEN TagObj(IF c.final = BlobHash THEN "blob" ELSE "commit", c.final)
        ELSE TagObj("tag", h - 1)]

CommitStores == {CommitStore(p) : p \in Dags}

RefName(short) == [prefix |-> "refs/tags/", short |-> short]

\* plumbing.ReferenceName.Short(): the name without its refs/tags/ prefix
Short(name) == name.short

RECURSIVE BuildRefs(_, _)
BuildRefs(ch, i) ==
    IF i > Len(TagShortNames) THEN << >>
    ELSE (IF ch[i].present
          THEN <<[name |-> RefName(TagShortNames[i]), hash |-> ChainRefHash(ch[i], i)]>>
          ELSE << >>) \o BuildRefs(ch, i + 1)

RECURSIVE BuildTagObjects(_, _)
BuildTagObjects(ch, i) ==
    IF i > Len(TagShortNames) THEN << >>
    ELSE ChainStore(ch[i], i) @@ BuildTagObjects(ch, i + 1)

\* every choice of tag references, with the tag objects behind them
TagStores == {[objs |-> BuildTagObjects(ch, 1), refs |-> BuildRefs(ch, 1)] : ch \in TagChains}

\* the files a tree may hold, and what it holds for each
TreePaths == {<<"a", "/", "x">>, <<"b">>}

FileContents == {"absent", "v1"}

TreeChoices == [TreePaths -> FileContents]

EmptyTree == [f \in TreePaths |-> "absent"]

\* every commit made with --allow-empty on an empty tree
EmptyTrees == [c \in Commits |-> EmptyTree]

NilRef == [name |-> [prefix |-> "", short |-> ""], hash |-> 0]

ObjType(h) == IF h \in DOMAIN objects THEN objects[h].type ELSE "missing"

(***************************************************************************)
(* The file system, as far as os.Stat and git.PlainOpen see it             *)
(***************************************************************************)
RepoPaths == {"", "/missing", "/plain", "/repo"}

PathExists(path) == path \in {"/plain", "/repo"}

IsRepository(path) == path = "/repo"


(***************************************************************************)
(* History resolver (internal/repository.go)                               *)
(***************************************************************************)
\* FetchAllTags: the references of the repository, or an error when the
\* backend cannot enumerate them (ok = FALSE)
FetchAllTags(ok) ==
    IF ok THEN [refs |-> tagRefs, err |-> Nil]
    ELSE [refs |-> << >>, err |-> Join(Err("ErrFetchTags", ""), Err("storage", ""))]

\* object.Tag.Commit(): the target of an annotated tag, when it is a commit
TagCommit(h) ==
    IF objects[h].targetType # "commit"
    THEN [commit |-> 0, err |-> Err("ErrUnsupportedObject", "")]
    ELSE IF ObjType(objects[h].target) # "commit"
    THEN [commit |-> 0, err |-> Err("ErrObjectNotFound", "")]
    ELSE [commit |-> objects[h].target, err |-> Nil]

\* faulty variant: the reference is read as a commit only (no annotated tags)
resolveTagToCommitDirectOnly(ref) ==
    IF ObjType(ref.hash) = "commit"
    THEN [commit |-> ref.hash, err |-> Nil]
    ELSE [commit |-> 0,
          err |-> Join(Err("ErrDereferenceTag", ""), Err("ErrObjectNotFound", ""))]

resolveTagToCommit(ref) ==
    IF ObjType(ref.hash) = "tag"
    THEN LET t == TagCommit(ref.hash)
         IN IF t.err # Nil
            THEN [commit |-> 0, err |-> Join(Err("ErrDereferenceTag", ""), t.err)]
            ELSE [commit |-> t.commit, err |-> Nil]
    ELSE IF ObjType(ref.hash) = "commit"
    THEN [commit |-> ref.hash, err |-> Nil]
    ELSE [commit |-> 0,
          err |-> Join(Err("ErrDereferenceTag", ""), Err("ErrObjectNotFound", ""))]

\* faulty variant: the walk follows the first parent of a commit only
RECURSIVE LogForEachFirstParent(_, _, _)
LogForEachFirstParent(stack, seen, commitSet) ==
    IF stack = << >> THEN commitSet
    ELSE LET c == Head(stack)
         IN IF c \in seen
            THEN LogForEachFirstParent(Tail(stack), seen, commitSet)
            ELSE LogForEachFirstParent(
                     (IF objects[c].parents = << >> THEN << >>
                      ELSE <<Head(objects[c].parents)>>) \o Tail(stack),
                     seen \cup {c}, MapPut(commitSet, c))

\* repo.Log(From: c) with cIter.ForEach: a pre-order walk over the parents
\* with a seen set; every commit met for the first time is put in commitSet
RECURSIVE LogForEach(_, _, _)
LogForEach(stack, seen, commitSet) ==
    IF stack = << >> THEN commitSet
    ELSE LET c == Head(stack)
         IN IF c \in seen
            THEN LogForEach(Tail(stack), seen, commitSet)
            ELSE LogForEach(objects[c].parents \o Tail(stack), seen \cup {c},
                            MapPut(commitSet, c))

GetCommitSetForTag(ref) ==
    LET r == resolveTagToCommit(ref)
    IN IF r.err # Nil
       THEN [commitSet |-> NilMap, err |-> r.err]
       ELSE [commitSet |-> LogForEach(<<r.commit>>, {}, MakeMap), err |-> Nil]

\* git's match of a literal pathspec against a file name: the empty pathspec
\* matches every file, otherwise the pathspec is the name or a leading
\* directory of it
GitPathspecMatch(name, pathspec) ==
    \/ pathspec = EmptyString
    \/ /\ Len(name) >= Len(pathspec)
       /\ SubSeq(name, 1, Len(pathspec)) = pathspec
       /\ \/ Len(name) = Len(pathspec)
          \/ pathspec[Len(pathspec)] = "/"
          \/ name[Len(pathspec) + 1] = "/"

\* TREESAME: commit c and p hold the same content for every file the
\* pathspec matches (p = 0 stands for the empty tree a root is compared with)
TreeSame(c, p, pathspec) ==
    \A f \in TreePaths :
        GitPathspecMatch(f, pathspec) =>
            trees[c][f] = (IF p = 0 THEN "absent" ELSE trees[p][f])

\* the parents of c that are TREESAME to it, in parent order
TreeSameParents(c, pathspec) ==
    SelectSeq(objects[c].parents, LAMBDA p : TreeSame(c, p, pathspec))

\* git log <start> -- <pathspec>, default history simplification: a commit
\* TREESAME to a parent is left out and only the first such parent is
\* followed; a commit that differs from every parent (a root: from the empty
\* tree) is printed and all its parents are followed
RECURSIVE GitLogWalk(_, _, _, _)
GitLogWalk(stack, seen, out, pathspec) ==
    IF stack = << >> THEN out
    ELSE LET c == Head(stack)
         IN IF c \in seen
            THEN GitLogWalk(Tail(stack), seen, out, pathspec)
            ELSE IF objects[c].parents = << >>
            THEN GitLogWalk(Tail(stack), seen \cup {c},
                            IF TreeSame(c, 0, pathspec) THEN out ELSE out \cup {c},
                            pathspec)
            ELSE IF TreeSameParents(c, pathspec) # << >>
            THEN GitLogWalk(<<Head(TreeSameParents(c, pathspec))>> \o Tail(stack),
                            seen \cup {c}, out, pathspec)
            ELSE GitLogWalk(objects[c].parents \o Tail(stack),
                            seen \cup {c}, out \cup {c}, pathspec)

\* cmd.Output() of git log <start> --format=%H -- <pathspec>.  git 2.16 and
\* later refuses an empty pathspec ("empty string is not a valid pathspec")
\* and exits with status 128; earlier versions take it to match every path.
GitLog(start, pathspec) ==
    IF pathspec = EmptyString /\ gitVersion = "modern"
    THEN [output |-> {}, err |-> Err("exit status 128", "")]
    ELSE [output |-> GitLogWalk(<<start>>, {}, {}, pathspec), err |-> Nil]

GetCommitSetForTagFilteredByDirectory(ref, directory) ==
    LET r == resolveTagToCommit(ref)
    IN IF r.err # Nil
       THEN [commitSet |-> NilMap, err |-> r.err]
       ELSE LET g == GitLog(r.commit, directory)
            IN IF g.err # Nil
               THEN [commitSet |-> NilMap,
                     err |-> Join(Err("ErrTraverseCommits", ""), g.err)]
               ELSE [commitSet |-> PutAll(MakeMap, g.output), err |-> Nil]

\* cmd.Output() of git diff --stat --stat-width=120 <c1> <c2> [-- <pathspec>]:
\* the files that differ between the two trees (under the pathspec)
GitDiffStat(c1, c2, args) ==
    [output |-> {f \in TreePaths :
                    /\ trees[c1][f] # trees[c2][f]
                    /\ args = << >> \/ GitPathspecMatch(f, args[1])},
     err |-> Nil]

\* faulty variant: the error of the second resolution is not looked at
GetDiffBetweenTagsSecondUnchecked(tag1, tag2, directory) ==
    LET r1 == resolveTagToCommit(tag1)
        r2 == resolveTagToCommit(tag2)
    IN IF r1.err # Nil
       THEN [output |-> {}, err |-> r1.err]
       ELSE IF r2.err # Nil
       THEN [output |-> {}, err |-> Join(Err("ErrTraverseCommits", ""),
                                         Err("exit status 128", ""))]
       ELSE LET g == GitDiffStat(r1.commit, r2.commit,
                                 IF directory # EmptyString THEN <<directory>> ELSE << >>)
            IN [output |-> g.output, err |-> Nil]

GetDiffBetweenTags(tag1, tag2, directory) ==
    LET r1 == resolveTagToCommit(tag1)
        r2 == resolveTagToCommit(tag2)
    IN IF r1.err # Nil
       THEN [output |-> {}, err |-> r1.err]
       ELSE IF r2.err # Nil
       THEN [output |-> {}, err |-> r2.err]
       ELSE LET g == GitDiffStat(r1.commit, r2.commit,
                                 IF directory # EmptyString THEN <<directory>> ELSE << >>)
            IN IF g.err # Nil
               THEN [output |-> {}, err |-> Join(Err("ErrTraverseCommits", ""), g.err)]
               ELSE [output |-> g.output, err |-> Nil]

(***************************************************************************)
(* Comparison orchestrator (internal/compare.go)                           *)
(***************************************************************************)
\* faulty variant: the tag names are checked before the repository path
ValidateTagsFirst(c) ==
    IF c.Tag1Name = "" THEN Err("ErrMissingTag1", "")
    ELSE IF c.Tag2Name = "" THEN Err("ErrMissingTag2", "")
    ELSE IF c.RepoPath = "" THEN Err("ErrMissingRepo", "")
    ELSE IF ~PathExists(c.RepoPath)
    THEN Join(Err("ErrInvalidRepo", ""), Err("path does not exist", c.RepoPath))
    ELSE Nil

Validate(c) ==
    IF c.RepoPath = "" THEN Err("ErrMissingRepo", "")
    ELSE IF c.Tag1Name = "" THEN Err("ErrMissingTag1", "")
    ELSE IF c.Tag2Name = "" THEN Err("ErrMissingTag2", "")
    ELSE IF ~PathExists(c.RepoPath)
    THEN Join(Err("ErrInvalidRepo", ""), Err("path does not exist", c.RepoPath))
    ELSE Nil

NewGitRepository(path) ==
    IF IsRepository(path) THEN [repo |-> path, err |-> Nil]
    ELSE [repo |-> "nil",
          err |-> Join(Err("ErrOpenRepository", ""), Err("repository does not exist", path))]

\* tagMap[ref.Name().Short()] = true, for every fetched reference
TagMap(refs) == {Short(refs[i].name) : i \in DOMAIN refs}

\* faulty variant: the tags are fetched before the basic checks
ValidateWithRepositoryFetchFirst(c, ok) ==
    LET f == FetchAllTags(ok)
    IN IF f.err # Nil THEN [err |-> f.err, fetches |-> 1]
       ELSE IF Validate(c) # Nil THEN [err |-> Validate(c), fetches |-> 1]
       ELSE LET tag1Found == c.Tag1Name \in TagMap(f.refs)
                tag2Found == c.Tag2Name \in TagMap(f.refs)
            IN IF ~tag1Found
               THEN [err |-> Join(Err("ErrTag1NotFound", ""),
                                  Err("tag not found in repository", c.Tag1Name)),
                     fetches |-> 1]
               ELSE IF ~tag2Found
               THEN [err |-> Join(Err("ErrTag2NotFound", ""),
                                  Err("tag not found in repository", c.Tag2Name)),
                     fetches |-> 1]
               ELSE [err |-> Nil, fetches |-> 1]

\* faulty variant: the second tag is checked before the first
ValidateWithRepositoryTag2First(c, ok) ==
    IF Validate(c) # Nil THEN [err |-> Validate(c), fetches |-> 0]
    ELSE LET f == FetchAllTags(ok)
         IN IF f.err # Nil THEN [err |-> f.err, fetches |-> 1]
            ELSE LET tag1Found == c.Tag1Name \in TagMap(f.refs)
                     tag2Found == c.Tag2Name \in TagMap(f.refs)
                 IN IF ~tag2Found
                    THEN [err |-> Join(Err("ErrTag2NotFound", ""),
                                       Err("tag not found in repository", c.Tag2Name)),
                          fetches |-> 1]
                    ELSE IF ~tag1Found
                    THEN [err |-> Join(Err("ErrTag1NotFound", ""),
                                       Err("tag not found in repository", c.Tag1Name)),
                          fetches |-> 1]
                    ELSE [err |-> Nil, fetches |-> 1]

\* faulty variant: only the first tag is looked for
ValidateWithRepositoryTag1Only(c, ok) ==
    IF Validate(c) # Nil THEN [err |-> Validate(c), fetches |-> 0]
    ELSE LET f == FetchAllTags(ok)
         IN IF f.err # Nil THEN [err |-> f.err, fetches |-> 1]
            ELSE IF c.Tag1Name \notin TagMap(f.refs)
            THEN [err |-> Join(Err("ErrTag1NotFound", ""),
                               Err("tag not found in repository", c.Tag1Name)),
                  fetches |-> 1]
            ELSE [err |-> Nil, fetches |-> 1]

ValidateWithRepository(c, ok) ==
    IF Validate(c) # Nil THEN [err |-> Validate(c), fetches |-> 0]
    ELSE LET f == FetchAllTags(ok)
         IN IF f.err # Nil THEN [err |-> f.err, fetches |-> 1]
            ELSE LET tag1Found == c.Tag1Name \in TagMap(f.refs)
                     tag2Found == c.Tag2Name \in TagMap(f.refs)
                 IN IF ~tag1Found
                    THEN [err |-> Join(Err("ErrTag1NotFound", ""),
                                       Err("tag not found in repository", c.Tag1Name)),
                          fetches |-> 1]
                    ELSE IF ~tag2Found
                    THEN [err |-> Join(Err("ErrTag2NotFound", ""),
                                       Err("tag not found in repository", c.Tag2Name)),
                          fetches |-> 1]
                    ELSE [err |-> Nil, fetches |-> 1]

\* faulty variant: the loop does not return at the first match, so the last
\* matching reference wins
RECURSIVE FindRefLast(_, _)
FindRefLast(refs, tagName) ==
    IF refs = << >> THEN [ref |-> NilRef, err |-> Err("tag not found", tagName)]
    ELSE IF Short(refs[Len(refs)].name) = tagName
    THEN [ref |-> refs[Len(refs)], err |-> Nil]
    ELSE FindRefLast(SubSeq(refs, 1, Len(refs) - 1), tagName)

\* for _, ref := range tagRefs { if ref.Name().Short() == tagName { return ref, nil } }
RECURSIVE FindRef(_, _)
FindRef(refs, tagName) ==
    IF refs = << >> THEN [ref |-> NilRef, err |-> Err("tag not found", tagName)]
    ELSE IF Short(Head(refs).name) = tagName THEN [ref |-> Head(refs), err |-> Nil]
    ELSE FindRef(Tail(refs), tagName)

GetTagReference(tagName, ok) ==
    LET f == FetchAllTags(ok)
    IN IF f.err # Nil THEN [ref |-> NilRef, err |-> f.err]
       ELSE FindRef(f.refs, tagName)

\* faulty variant: the first loop has no else branch, so a shared hash is also
\* recorded as unique to tag1
PartitionNoElse(t1, t2) ==
    [SharedCommits |-> PutWhere(MakeMap, t1.keys, t2, TRUE),
     OnlyInTag1 |-> PutAll(MakeMap, t1.keys),
     OnlyInTag2 |-> PutWhere(MakeMap, t2.keys, t1, FALSE)]

\* faulty variant: the second loop tests ok instead of !ok
PartitionSecondLoopOk(t1, t2) ==
    [SharedCommits |-> PutWhere(MakeMap, t1.keys, t2, TRUE),
     OnlyInTag1 |-> PutWhere(MakeMap, t1.keys, t2, FALSE),
     OnlyInTag2 |-> PutWhere(MakeMap, t2.keys, t1, TRUE)]

\* faulty variant: the second loop records every hash of tag2, shared or not
PartitionSecondLoopAll(t1, t2) ==
    [SharedCommits |-> PutWhere(MakeMap, t1.keys, t2, TRUE),
     OnlyInTag1 |-> PutWhere(MakeMap, t1.keys, t2, FALSE),
     OnlyInTag2 |-> PutAll(MakeMap, t2.keys)]

\* faulty variant: the three maps are made at their first insertion only
PartitionNoMake(t1, t2) ==
    [SharedCommits |-> PutWhere(NilMap, t1.keys, t2, TRUE),
     OnlyInTag1 |-> PutWhere(NilMap, t1.keys, t2, FALSE),
     OnlyInTag2 |-> PutWhere(NilMap, t2.keys, t1, FALSE)]

\* step 7 of Compare: the two loops over tag1Commits and tag2Commits
Partition(t1, t2) ==
    [SharedCommits |-> PutWhere(MakeMap, t1.keys, t2, TRUE),
     OnlyInTag1 |-> PutWhere(MakeMap, t1.keys, t2, FALSE),
     OnlyInTag2 |-> PutWhere(MakeMap, t2.keys, t1, FALSE)]


(***************************************************************************)
(* Spec: one Compare call                                                  *)
(***************************************************************************)
TagNameArgs == {"", "v1", "v2"}

JaccardIdle ==
    /\ setA = NilMap
    /\ setB = NilMap
    /\ calls = {}
    /\ simAB = FloatZero
    /\ simBA = FloatZero

\* result := CompareResult{Config: config}
ZeroResult(c) ==
    [Repo |-> "nil", Config |-> c, Similarity |-> FloatZero,
     SharedCommits |-> NilMap, OnlyInTag1 |-> NilMap, OnlyInTag2 |-> NilMap]

Init ==
    /\ JaccardIdle
    /\ FilterIdle
    /\ PathIdle
    /\ ReportIdle
    /\ DirectIdle
    /\ PrintIdle
    /\ ConfigCommandIdle
    /\ config \in [RepoPath : RepoPaths, Tag1Name : TagNameArgs,
                   Tag2Name : TagNameArgs, Verbose : BOOLEAN]
    /\ IF IsRepository(config.RepoPath)
       THEN \E commits \in CommitStores, tags \in TagStores :
               /\ objects = commits @@ tags.objs
               /\ tagRefs = tags.refs
               /\ trees = EmptyTrees
       ELSE /\ objects = << >>
            /\ tagRefs = << >>
            /\ trees = << >>
    /\ gitVersion = "modern"
    /\ pc = "validate"
    /\ repo = "nil"
    /\ fetchCalls = 0
    /\ tag1Ref = NilRef
    /\ tag2Ref = NilRef
    /\ tag1Commits = NilMap
    /\ tag2Commits = NilMap
    /\ result = ZeroResult(config)
    /\ err = Nil

\* return result, errors.Join(wrap, e)
Fail(wrap, e) ==
    /\ pc' = "done"
    /\ err' = Join(Err(wrap, ""), e)

\* compare.go 40-43
ValidateConfig ==
    /\ pc = "validate"
    /\ IF Validate(config) # Nil
       THEN Fail("ErrInvalidConfiguration", Validate(config))
       ELSE pc' = "open" /\ UNCHANGED err
    /\ UNCHANGED <<jvars, repovars, auxvars, output, config, repo, fetchCalls, tag1Ref, tag2Ref,
                   tag1Commits, tag2Commits, result>>

\* compare.go 45-49
OpenRepository ==
    /\ pc = "open"
    /\ LET r == NewGitRepository(config.RepoPath)
       IN IF r.err # Nil
          THEN Fail("ErrOpenRepository", r.err) /\ UNCHANGED repo
          ELSE pc' = "validateTags" /\ repo' = r.repo /\ UNCHANGED err
    /\ UNCHANGED <<jvars, repovars, auxvars, output, config, fetchCalls, tag1Ref, tag2Ref,
                   tag1Commits, tag2Commits, result>>

\* compare.go 51-54
ValidateTags ==
    /\ pc = "validateTags"
    /\ \E ok \in BOOLEAN :
          LET v == ValidateWithRepository(config, ok)
          IN /\ fetchCalls' = fetchCalls + v.fetches
             /\ IF v.err # Nil
                THEN Fail("ErrValidationFailed", v.err)
                ELSE pc' = "getTag1" /\ UNCHANGED err
    /\ UNCHANGED <<jvars, repovars, auxvars, output, config, repo, tag1Ref, tag2Ref,
                   tag1Commits, tag2Commits, result>>

\* compare.go 56-60
GetTag1Reference ==
    /\ pc = "getTag1"
    /\ \E ok \in BOOLEAN :
          LET g == GetTagReference(config.Tag1Name, ok)
          IN /\ fetchCalls' = fetchCalls + 1
             /\ tag1Ref' = g.ref
             /\ IF g.err # Nil
                THEN Fail("ErrGetTagReference", g.err)
                ELSE pc' = "getTag2" /\ UNCHANGED err
    /\ UNCHANGED <<jvars, repovars, auxvars, output, config, repo, tag2Ref,
                   tag1Commits, tag2Commits, result>>

\* compare.go 62-65
GetTag2Reference ==
    /\ pc = "getTag2"
    /\ \E ok \in BOOLEAN :
          LET g == GetTagReference(config.Tag2Name, ok)
          IN /\ fetchCalls' = fetchCalls + 1
             /\ tag2Ref' = g.ref
             /\ IF g.err # Nil
                THEN Fail("ErrGetTagReference", g.err)
                ELSE pc' = "commits1" /\ UNCHANGED err
    /\ UNCHANGED <<jvars, repovars, auxvars, output, config, repo, tag1Ref,
                   tag1Commits, tag2Commits, result>>

\* faulty variant: the call goes on to the second walk when the first failed
GetTag1CommitsErrorIgnored ==
    /\ pc = "commits1"
    /\ tag1Commits' = GetCommitSetForTag(tag1Ref).commitSet
    /\ pc' = "commits2"
    /\ UNCHANGED <<jvars, repovars, auxvars, output, config, repo, fetchCalls, tag1Ref, tag2Ref,
                   tag2Commits, result, err>>

\* compare.go 67-71
GetTag1Commits ==
    /\ pc = "commits1"
    /\ LET g == GetCommitSetForTag(tag1Ref)
       IN /\ tag1Commits' = g.commitSet
          /\ IF g.err # Nil
             THEN Fail("ErrGetCommits", g.err)
             ELSE pc' = "commits2" /\ UNCHANGED err
    /\ UNCHANGED <<jvars, repovars, auxvars, output, config, repo, fetchCalls, tag1Ref, tag2Ref,
                   tag2Commits, result>>

\* compare.go 73-76
GetTag2Commits ==
    /\ pc = "commits2"
    /\ LET g == GetCommitSetForTag(tag2Ref)
       IN /\ tag2Commits' = g.commitSet
          /\ IF g.err # Nil
             THEN Fail("ErrGetCommits", g.err)
             ELSE pc' = "similarity" /\ UNCHANGED err
    /\ UNCHANGED <<jvars, repovars, auxvars, output, config, repo, fetchCalls, tag1Ref, tag2Ref,
                   tag1Commits, result>>

\* compare.go 78-100
SimilarityAndPartition ==
    /\ pc = "similarity"
    /\ LET part == Partition(tag1Commits, tag2Commits)
       IN result' = [result EXCEPT
                        !.Similarity = CalculateJaccardSimilarity(tag1Commits, tag2Commits),
                        !.SharedCommits = part.SharedCommits,
                        !.OnlyInTag1 = part.OnlyInTag1,
                        !.OnlyInTag2 = part.OnlyInTag2]
    /\ pc' = "done"
    /\ UNCHANGED <<jvars, repovars, auxvars, output, config, repo, fetchCalls, tag1Ref, tag2Ref,
                   tag1Commits, tag2Commits, err>>

\* printDiffCommits(repo, tagName, diffSet): nothing for an empty set;
\* otherwise a header and a line per commit, got by repo.GetCommitObject, a
\* call on a nil interface value when repo is nil
PrintDiffPanics(r, diffSet) == MapLen(diffSet) > 0 /\ r = "nil"

\* main, after a successful Compare: PrintCompareResult(result)
\* (compare.go 20-35); the summary, then with -v the two commit lists
PrintCompareResult ==
    /\ pc = "done"
    /\ err = Nil
    /\ LET summary == [NoOutput EXCEPT
                          !.summary = TRUE,
                          !.total1 = MapLen(result.OnlyInTag1),
                          !.total2 = MapLen(result.OnlyInTag2),
                          !.shared = MapLen(result.SharedCommits),
                          !.unique1 = MapLen(result.OnlyInTag1),
                          !.unique2 = MapLen(result.OnlyInTag2)]
       IN IF ~result.Config.Verbose
          THEN output' = summary /\ pc' = "printed"
          ELSE IF PrintDiffPanics(result.Repo, result.OnlyInTag1)
          THEN output' = summary /\ pc' = "panicked"
          ELSE IF PrintDiffPanics(result.Repo, result.OnlyInTag2)
          THEN /\ output' = [summary EXCEPT !.listed1 = MapLen(result.OnlyInTag1)]
               /\ pc' = "panicked"
          ELSE /\ output' = [summary EXCEPT !.listed1 = MapLen(result.OnlyInTag1),
                                            !.listed2 = MapLen(result.OnlyInTag2)]
               /\ pc' = "printed"
    /\ UNCHANGED <<jvars, repovars, auxvars, config, repo, fetchCalls, tag1Ref, tag2Ref,
                   tag1Commits, tag2Commits, result, err>>

Next ==
    \/ ValidateConfig
    \/ OpenRepository
    \/ ValidateTags
    \/ GetTag1Reference
    \/ GetTag2Reference
    \/ GetTag1Commits
    \/ GetTag2Commits
    \/ SimilarityAndPartition
    \/ PrintCompareResult

Spec == Init /\ [][Next]_vars


(***************************************************************************)
(* Comparison orchestrator: properties (checked under Spec)                *)
(***************************************************************************)
Succeeded == pc = "done" /\ err = Nil

Disjoint(a, b) == a \cap b = {}

\* C7: for every successful Compare, SharedCommits \cup OnlyInTag1 is tag1's
\* commit set, SharedCommits \cup OnlyInTag2 is tag2's commit set, and the
\* three sets are pairwise disjoint.
C7_PartitionInvariant ==
    Succeeded =>
        /\ result.SharedCommits.keys \cup result.OnlyInTag1.keys = tag1Commits.keys
        /\ result.SharedCommits.keys \cup result.OnlyInTag2.keys = tag2Commits.keys
        /\ Disjoint(result.SharedCommits.keys, result.OnlyInTag1.keys)
        /\ Disjoint(result.SharedCommits.keys, result.OnlyInTag2.keys)
        /\ Disjoint(result.OnlyInTag1.keys, result.OnlyInTag2.keys)

C7_Witness ==
    /\ Succeeded
    /\ result.SharedCommits.keys # {}
    /\ result.OnlyInTag1.keys # {}
    /\ result.OnlyInTag2.keys # {}

\* C8: comparing an existing tag against itself gives Similarity 1.0, empty
\* OnlyInTag1 and OnlyInTag2, and SharedCommits equal to the tag's whole
\* commit set.
C8_SelfCompare ==
    (Succeeded /\ config.Tag1Name = config.Tag2Name) =>
        /\ result.Similarity = FloatOne
        /\ result.OnlyInTag1.keys = {}
        /\ result.OnlyInTag2.keys = {}
        /\ result.SharedCommits.keys = tag1Commits.keys
        /\ tag1Commits.keys # {}

C8_Witness ==
    /\ Succeeded
    /\ config.Tag1Name = config.Tag2Name
    /\ Cardinality(result.SharedCommits.keys) >= 2
    /\ result.Similarity = FloatOne

\* the error ValidateWithRepository returned, once Compare is past that call
ValidateTagsReturned ==
    /\ pc \notin {"validate", "open", "validateTags"}
    /\ ~ErrorsIs(err, "ErrInvalidConfiguration")
    /\ ~ErrorsIs(err, "ErrOpenRepository")

ValidateTagsErr == IF ErrorsIs(err, "ErrValidationFailed") THEN Tail(err) ELSE Nil

TagPresent(tagName) == \E i \in DOMAIN tagRefs : Short(tagRefs[i].name) = tagName

\* C9: on a configuration whose basic fields are valid and with the tags
\* fetched, ValidateWithRepository returns ErrTag1NotFound naming Tag1Name
\* whenever Tag1Name is absent (also when Tag2Name is absent too), returns
\* ErrTag2NotFound naming Tag2Name only when Tag1Name is present and Tag2Name
\* absent, and returns nil only when both are present.
C9_TagNotFoundOrder ==
    ValidateTagsReturned =>
        /\ (~TagPresent(config.Tag1Name) /\ ~ErrorsIs(ValidateTagsErr, "ErrFetchTags"))
             => /\ ErrorsIs(ValidateTagsErr, "ErrTag1NotFound")
                /\ ~ErrorsIs(ValidateTagsErr, "ErrTag2NotFound")
                /\ ErrorNames(ValidateTagsErr, "tag not found in repository", config.Tag1Name)
        /\ ErrorsIs(ValidateTagsErr, "ErrTag2NotFound")
             => /\ TagPresent(config.Tag1Name)
                /\ ~TagPresent(config.Tag2Name)
                /\ ErrorNames(ValidateTagsErr, "tag not found in repository", config.Tag2Name)
        /\ ValidateTagsErr = Nil
             => (TagPresent(config.Tag1Name) /\ TagPresent(config.Tag2Name))

C9_Witness ==
    /\ ValidateTagsReturned
    /\ config.Tag1Name # config.Tag2Name
    /\ ~TagPresent(config.Tag1Name)
    /\ ~TagPresent(config.Tag2Name)
    /\ ErrorsIs(err, "ErrTag1NotFound")

LightweightAt(ref, c) == ref.hash = c /\ ObjType(ref.hash) = "commit"

AnnotatedAt(ref, c) ==
    /\ ObjType(ref.hash) = "tag"
    /\ objects[ref.hash].targetType = "commit"
    /\ objects[ref.hash].target = c

\* C10: when a lightweight tag and an annotated tag point at the same commit,
\* GetCommitSetForTag succeeds for both and returns the same commit set.
C10_LightweightAndAnnotatedAgree ==
    \A c \in Commits :
        (/\ pc = "done"
         /\ tag1Ref # NilRef
         /\ tag2Ref # NilRef
         /\ \/ LightweightAt(tag1Ref, c) /\ AnnotatedAt(tag2Ref, c)
            \/ AnnotatedAt(tag1Ref, c) /\ LightweightAt(tag2Ref, c))
        => /\ err = Nil
           /\ ~tag1Commits.isNil
           /\ ~tag2Commits.isNil
           /\ c \in tag1Commits.keys
           /\ tag1Commits = tag2Commits

C10_Witness ==
    /\ Succeeded
    /\ \E c \in Commits : LightweightAt(tag1Ref, c) /\ AnnotatedAt(tag2Ref, c)
    /\ Cardinality(tag1Commits.keys) >= 2
    /\ tag1Commits = tag2Commits

\* the commits reachable from c over parent edges, c included
RECURSIVE Ancestors(_)
Ancestors(c) ==
    {c} \cup UNION {Ancestors(objects[c].parents[i]) : i \in DOMAIN objects[c].parents}

ParentSet(c) == {objects[c].parents[i] : i \in DOMAIN objects[c].parents}

\* C11: the commit set GetCommitSetForTag returns for a tag is exactly the
\* set of commits reachable from the tag's resolved commit over every parent
\* edge, the resolved commit included (for both tags of the comparison).
C11_CommitSetIsReachableSet ==
    /\ ~tag1Commits.isNil =>
          tag1Commits.keys = Ancestors(resolveTagToCommit(tag1Ref).commit)
    /\ ~tag2Commits.isNil =>
          tag2Commits.keys = Ancestors(resolveTagToCommit(tag2Ref).commit)

\* a merge commit whose two parents share an ancestor
C11_Witness ==
    /\ ~tag1Commits.isNil
    /\ LET c == resolveTagToCommit(tag1Ref).commit
       IN /\ Len(objects[c].parents) = 2
          /\ \E a \in Commits :
                /\ a \in ParentSet(c)
                /\ \E b \in ParentSet(c) : a \in ParentSet(b)
          /\ tag1Commits.keys = Commits


(***************************************************************************)
(* Path matching (internal/repository.go, pathInDirectory)                 *)
(***************************************************************************)
\* path[:n], for n <= len(path)
Prefix(str, n) == SubSeq(str, 1, n)

\* faulty variant: a plain prefix test, without the segment boundary
pathInDirectoryPrefixOnly(path, directory) ==
    IF directory = EmptyString THEN TRUE
    ELSE LET dir == IF Len(directory) > 0 /\ directory[Len(directory)] = "/"
                    THEN Prefix(directory, Len(directory) - 1)
                    ELSE directory
         IN IF Len(path) >= Len(dir)
            THEN Prefix(path, Len(dir)) = dir
            ELSE FALSE

\* faulty variant: a trailing slash of the directory is kept
pathInDirectoryNoStrip(path, directory) ==
    IF directory = EmptyString THEN TRUE
    ELSE IF Len(path) >= Len(directory)
    THEN /\ Prefix(path, Len(directory)) = directory
         /\ Len(path) = Len(directory) \/ path[Len(directory) + 1] = "/"
    ELSE FALSE

pathInDirectory(path, directory) ==
    IF directory = EmptyString THEN TRUE
    ELSE LET dir == IF Len(directory) > 0 /\ directory[Len(directory)] = "/"
                    THEN Prefix(directory, Len(directory) - 1)
                    ELSE directory
         IN IF Len(path) >= Len(dir)
            THEN IF Prefix(path, Len(dir)) = dir
                 THEN IF Len(path) = Len(dir) \/ path[Len(dir) + 1] = "/"
                      THEN TRUE
                      ELSE FALSE
                 ELSE FALSE
            ELSE FALSE

Alphabet == {"a", "A", "b", "/"}

RECURSIVE StringsUpTo(_)
StringsUpTo(n) ==
    IF n = 0 THEN {EmptyString}
    ELSE LET shorter == StringsUpTo(n - 1)
         IN shorter \cup {Append(str, ch) : str \in shorter, ch \in Alphabet}

\* strings of TestPathInDirectory
Str_src == <<"s", "r", "c">>

Str_src_main_go == <<"s", "r", "c", "/", "m", "a", "i", "n", ".", "g", "o">>

Str_source_main_go ==
    <<"s", "o", "u", "r", "c", "e", "/", "m", "a", "i", "n", ".", "g", "o">>

Str_Src_main_go == <<"S", "r", "c", "/", "m", "a", "i", "n", ".", "g", "o">>

Str_src_api == <<"s", "r", "c", "/", "a", "p", "i">>

Str_src_api_slash == <<"s", "r", "c", "/", "a", "p", "i", "/">>

Str_src_api_handler_go ==
    <<"s", "r", "c", "/", "a", "p", "i", "/", "h", "a", "n", "d", "l", "e", "r", ".", "g", "o">>

TestStrings == {Str_src, Str_src_main_go, Str_source_main_go, Str_Src_main_go,
                Str_src_api, Str_src_api_slash, Str_src_api_handler_go}

PathStrings == StringsUpTo(MaxPathLen) \cup TestStrings

PInit ==
    /\ JaccardIdle
    /\ CompareIdle
    /\ HistoryIdle
    /\ ReportIdle
    /\ DirectIdle
    /\ PrintIdle
    /\ ConfigCommandIdle
    /\ directoryFilter \in PathStrings
    /\ filePath \in PathStrings
    /\ pathCalled = FALSE
    /\ pathResult = FALSE

\* got := gr.pathInDirectory(path, directory)
CallPathInDirectory ==
    /\ ~pathCalled
    /\ pathResult' = pathInDirectory(filePath, directoryFilter)
    /\ pathCalled' = TRUE
    /\ UNCHANGED <<jvars, repovars, cvars, fvars, rvars, dvars, kvars, output, filePath>>

PNext == CallPathInDirectory

SpecPath == PInit /\ [][PNext]_vars

StartsWith(str, pre) == Len(str) >= Len(pre) /\ Prefix(str, Len(pre)) = pre

Slash == <<"/">>

\* directory without one trailing '/'
Stripped(dir) ==
    IF dir # EmptyString /\ dir[Len(dir)] = "/" THEN Prefix(dir, Len(dir) - 1) ELSE dir

\* C13 as stated: pathInDirectory(path, dir) is true exactly when dir is
\* empty, or path equals dir, or path begins with dir followed by '/'; and a
\* path shorter than dir never matches.
C13_Original ==
    pathCalled =>
        /\ pathResult = (\/ directoryFilter = EmptyString
                         \/ filePath = directoryFilter
                         \/ StartsWith(filePath, directoryFilter \o Slash))
        /\ Len(filePath) < Len(directoryFilter) => ~pathResult

\* C13 (amended): with d the directory without one trailing '/',
\* pathInDirectory(path, dir) is true exactly when dir is empty, or path
\* equals d, or path begins with d followed by '/'; the comparison is
\* case-sensitive and segment-aligned ("src" matches "src/main.go" but not
\* "source/main.go" or "Src/main.go"), and a path shorter than d never
\* matches a non-empty dir.
C13_PathInDirectory ==
    pathCalled =>
        LET d == Stripped(directoryFilter)
        IN /\ pathResult = (\/ directoryFilter = EmptyString
                            \/ filePath = d
                            \/ StartsWith(filePath, d \o Slash))
           /\ (directoryFilter = Str_src /\ filePath = Str_src_main_go) => pathResult
           /\ (directoryFilter = Str_src /\ filePath = Str_source_main_go) => ~pathResult
           /\ (directoryFilter = Str_src /\ filePath = Str_Src_main_go) => ~pathResult
           /\ (directoryFilter # EmptyString /\ Len(filePath) < Len(d)) => ~pathResult

\* the trailing-slash case of TestPathInDirectory
C13_Witness ==
    /\ pathCalled
    /\ directoryFilter = Str_src_api_slash
    /\ filePath = Str_src_api_handler_go
    /\ pathResult

EndsInSlash(str) == str # EmptyString /\ str[Len(str)] = "/"

\* C27 as stated: for every path p and every directory d that does not end
\* in '/', pathInDirectory(p, d + "/") equals pathInDirectory(p, d).
C27_Original ==
    (pathCalled /\ ~EndsInSlash(directoryFilter)) =>
        pathInDirectory(filePath, directoryFilter \o Slash) = pathResult

\* C27 (amended): for every path p and every non-empty directory d that does
\* not end in '/', pathInDirectory(p, d + "/") equals pathInDirectory(p, d).
C27_TrailingSlash ==
    (pathCalled /\ directoryFilter # EmptyString /\ ~EndsInSlash(directoryFilter)) =>
        pathInDirectory(filePath, directoryFilter \o Slash) = pathResult

\* the directory "src/api" of TestPathInDirectory, with and without the slash
C27_Witness ==
    /\ pathCalled
    /\ directoryFilter = Str_src_api
    /\ filePath = Str_src_api_handler_go
    /\ pathResult
    /\ pathInDirectory(filePath, directoryFilter \o Slash)
    /\ directoryFilter \o Slash = Str_src_api_slash


(***************************************************************************)
(* SpecHistory: GetCommitSetForTag and                                     *)
(* GetCommitSetForTagFilteredByDirectory called on the same tag reference  *)
(***************************************************************************)
Directories == {EmptyString, <<"a">>, <<"a", "/">>, <<"b">>}

GitVersions == {"modern", "legacy"}

\* one lightweight tag, on a commit or on the blob
LightweightRefs == {<<[name |-> RefName("v1"), hash |-> h]>> : h \in Commits \cup {BlobHash}}

HInit ==
    /\ JaccardIdle
    /\ PathIdle
    /\ ReportIdle
    /\ DirectIdle
    /\ PrintIdle
    /\ ConfigCommandIdle
    /\ objects \in CommitStores
    /\ tagRefs \in LightweightRefs
    /\ trees \in [Commits -> TreeChoices]
    /\ gitVersion \in GitVersions
    /\ config = [RepoPath |-> "/repo", Tag1Name |-> "v1", Tag2Name |-> "v1", Verbose |-> FALSE]
    /\ pc = "idle"
    /\ repo = "/repo"
    /\ fetchCalls = 0
    /\ tag1Ref = NilRef
    /\ tag2Ref = NilRef
    /\ tag1Commits = NilMap
    /\ tag2Commits = NilMap
    /\ result = ZeroResult(config)
    /\ err = Nil
    /\ directoryFilter \in Directories
    /\ HistoryIdle

\* commits, err := repo.GetCommitSetForTag(ref)
CallGetCommitSetForTag ==
    /\ "plain" \notin histCalls
    /\ LET g == GetCommitSetForTag(tagRefs[1])
       IN /\ plainCommits' = g.commitSet
          /\ plainErr' = g.err
    /\ histCalls' = histCalls \cup {"plain"}
    /\ UNCHANGED <<jvars, repovars, cvars, pvars, rvars, dvars, kvars, output, directoryFilter,
                   filteredCommits, filteredErr, diffStat, diffErr>>

\* commits, err := repo.GetCommitSetForTagFilteredByDirectory(ref, directory)
CallGetCommitSetForTagFiltered ==
    /\ "filtered" \notin histCalls
    /\ LET g == GetCommitSetForTagFilteredByDirectory(tagRefs[1], directoryFilter)
       IN /\ filteredCommits' = g.commitSet
          /\ filteredErr' = g.err
    /\ histCalls' = histCalls \cup {"filtered"}
    /\ UNCHANGED <<jvars, repovars, cvars, pvars, rvars, dvars, kvars, output, directoryFilter,
                   plainCommits, plainErr, diffStat, diffErr>>

HNext == CallGetCommitSetForTag \/ CallGetCommitSetForTagFiltered

SpecHistory == HInit /\ [][HNext]_vars

\* C12: for every tag reference (that resolves to a commit),
\* GetCommitSetForTagFilteredByDirectory with an empty directory succeeds and
\* returns the commit set GetCommitSetForTag returns.
C12_EmptyDirectoryIsUnfiltered ==
    (histCalls = {"plain", "filtered"} /\ directoryFilter = EmptyString /\ plainErr = Nil) =>
        /\ filteredErr = Nil
        /\ filteredCommits.keys = plainCommits.keys


(***************************************************************************)
(* The manual-diff version of GetCommitSetForTagFilteredByDirectory        *)
(* (internal/repository.go, the go-git walk with commitTouchesDirectory)   *)
(***************************************************************************)
\* parentTree.Diff(tree): one change for each file whose content differs;
\* the name on the side where the file is absent is the empty string
TreeDiff(p, c) ==
    {[From |-> IF trees[p][f] = "absent" THEN EmptyString ELSE f,
      To |-> IF trees[c][f] = "absent" THEN EmptyString ELSE f] :
        f \in {g \in TreePaths : trees[p][g] # trees[c][g]}}

treeContainsDirectory(c, directory) ==
    \E f \in TreePaths : trees[c][f] # "absent" /\ pathInDirectory(f, directory)

commitTouchesDirectory(c, directory) ==
    IF objects[c].parents = << >>
    THEN treeContainsDirectory(c, directory)
    ELSE \E i \in DOMAIN objects[c].parents :
            \E change \in TreeDiff(objects[c].parents[i], c) :
                \/ pathInDirectory(change.From, directory)
                \/ pathInDirectory(change.To, directory)

\* the walk of repo.Log over every ancestor, keeping the commits that touch
\* the directory
GetCommitSetForTagFilteredByDirectoryManual(ref, directory) ==
    IF ObjType(ref.hash) # "commit"
    THEN [commitSet |-> NilMap,
          err |-> Join(Err("ErrGetCommit", ""), Err("ErrObjectNotFound", ""))]
    ELSE [commitSet |->
              MapOf({c \in LogForEach(<<ref.hash>>, {}, MakeMap).keys :
                        commitTouchesDirectory(c, directory)}),
          err |-> Nil]

\* C22: for every commit graph and every directory (shown here for the
\* non-empty ones), the git-log based GetCommitSetForTagFilteredByDirectory
\* returns exactly the set of the manual-diff definition: the commits
\* reachable from the tag's commit that are roots holding a file of the
\* directory or that differ from at least one parent in a path of the
\* directory, merges and side branches included.
C22_GitLogEqualsManualDiff ==
    ("filtered" \in histCalls /\ directoryFilter # EmptyString
        /\ ObjType(tagRefs[1].hash) = "commit") =>
        /\ filteredErr = Nil
        /\ filteredCommits =
               GetCommitSetForTagFilteredByDirectoryManual(tagRefs[1], directoryFilter).commitSet

\* C23: filtering narrows the result and not the walk: the filtered commit
\* set of a tag is a subset of its unfiltered commit set, and every ancestor
\* that touches the directory is in the filtered set, whatever the commits
\* between it and the tag's commit do.
C23_FilterNarrowsResultNotWalk ==
    (histCalls = {"plain", "filtered"} /\ plainErr = Nil /\ filteredErr = Nil) =>
        /\ filteredCommits.keys \subseteq plainCommits.keys
        /\ \A c \in plainCommits.keys :
               commitTouchesDirectory(c, directoryFilter) => c \in filteredCommits.keys


(***************************************************************************)
(* SpecCompareFiltered: one Compare call with the -d option, on a          *)
(* repository whose commits change the file a/x                            *)
(***************************************************************************)
\* two lightweight tags, each on a commit
TwoLightweightRefs ==
    {<<[name |-> RefName("v1"), hash |-> h1], [name |-> RefName("v2"), hash |-> h2]>> :
        h1 \in Commits, h2 \in Commits}

\* trees that hold the file a/x or nothing
TreesOfOneFile ==
    {[c \in Commits |-> [f \in TreePaths |-> IF f = <<"a", "/", "x">> THEN t[c] ELSE "absent"]] :
        t \in [Commits -> FileContents]}

CFInit ==
    /\ JaccardIdle
    /\ PathIdle
    /\ HistoryIdle
    /\ ReportIdle
    /\ DirectIdle
    /\ PrintIdle
    /\ ConfigCommandIdle
    /\ config \in [RepoPath : {"/repo"}, Tag1Name : {"v1"}, Tag2Name : {"v1", "v2"},
                   Verbose : BOOLEAN]
    /\ directoryFilter \in {EmptyString, <<"a">>}
    /\ objects \in CommitStores
    /\ tagRefs \in TwoLightweightRefs
    /\ trees \in TreesOfOneFile
    /\ gitVersion \in GitVersions
    /\ pc = "validate"
    /\ repo = "nil"
    /\ fetchCalls = 0
    /\ tag1Ref = NilRef
    /\ tag2Ref = NilRef
    /\ tag1Commits = NilMap
    /\ tag2Commits = NilMap
    /\ result = ZeroResult(config)
    /\ err = Nil

SpecCompareFiltered == CFInit /\ [][Next]_vars

\* commit c changes a file of the directory: it differs there from one of
\* its parents, or it is a root that holds such a file
TouchesDirectory(c, dir) ==
    \E f \in TreePaths :
        /\ pathInDirectory(f, dir)
        /\ IF objects[c].parents = << >>
           THEN trees[c][f] # "absent"
           ELSE \E p \in ParentSet(c) : trees[c][f] # trees[p][f]

\* C14: when a path filter is given, a commit that does not touch the filter
\* path appears in none of SharedCommits, OnlyInTag1, OnlyInTag2 of a
\* successful Compare.
C14_FilteredCompare ==
    (Succeeded /\ directoryFilter # EmptyString) =>
        \A c \in result.SharedCommits.keys \cup result.OnlyInTag1.keys
                   \cup result.OnlyInTag2.keys :
            TouchesDirectory(c, directoryFilter)


(***************************************************************************)
(* Comparison orchestrator: further properties (checked under Spec)        *)
(***************************************************************************)
SharedCount == Cardinality(result.SharedCommits.keys)

PartitionCount ==
    Cardinality(result.SharedCommits.keys) + Cardinality(result.OnlyInTag1.keys)
        + Cardinality(result.OnlyInTag2.keys)

\* C15: in every successful Compare result, Similarity is
\* |SharedCommits| / (|SharedCommits| + |OnlyInTag1| + |OnlyInTag2|), and 1.0
\* when the three sets are all empty.
C15_SimilarityOfPartition ==
    Succeeded =>
        IF PartitionCount = 0
        THEN result.Similarity = FloatOne
        ELSE /\ result.Similarity.den > 0
             /\ result.Similarity.num * PartitionCount
                  = result.Similarity.den * SharedCount

C15_Witness ==
    /\ Succeeded
    /\ SharedCount = 1
    /\ Cardinality(result.OnlyInTag1.keys) = 1
    /\ Cardinality(result.OnlyInTag2.keys) = 1
    /\ result.Similarity = [num |-> 1, den |-> 3]


(***************************************************************************)
(* Report generation (internal/report.go, internal/config.go)              *)
(***************************************************************************)
Providers == {"claude", "openai", "gemini"}

\* AIConfig.Validate
AIConfigValidate(c) ==
    IF c.Provider \notin Providers
    THEN Join(Err("ErrInvalidProvider", ""), Err("unsupported provider", c.Provider))
    ELSE IF c.APIKey = "" THEN Err("ErrMissingAPIKey", "")
    ELSE Nil

\* LoadConfig: the home directory is unknown, the file does not exist, it
\* cannot be read, it is not the JSON of an AIConfig, or it is
LoadConfig(file) ==
    IF file.state = "nohome"
    THEN [config |-> NoAIConfig, err |-> Err("$HOME is not defined", "")]
    ELSE IF file.state = "missing"
    THEN [config |-> NoAIConfig, err |-> Err("ErrConfigNotFound", "")]
    ELSE IF file.state = "unreadable"
    THEN [config |-> NoAIConfig,
          err |-> Join(Err("ErrConfigFileRead", ""), Err("permission denied", ""))]
    ELSE IF file.state = "malformed"
    THEN [config |-> NoAIConfig,
          err |-> Join(Err("ErrInvalidConfigData", ""), Err("invalid character", ""))]
    ELSE [config |-> file.config, err |-> Nil]

\* formatCommitDataForPrompt calls result.Repo.GetCommitObject for every
\* commit unique to a tag: a nil Repo is a nil-pointer panic there
FormatPanics(res) ==
    /\ res.Repo = "nil"
    /\ (MapLen(res.OnlyInTag1) > 0 \/ MapLen(res.OnlyInTag2) > 0)

\* callClaudeAPI, callOpenAIAPI, callGeminiAPI
CallAPI(responds) ==
    IF responds THEN [text |-> "report", err |-> Nil]
    ELSE [text |-> "", err |-> Join(Err("ErrAPIRequest", ""), Err("API returned status", ""))]

ReportOutcome(state, e, w, called, written) ==
    [state |-> state, err |-> e, warning |-> w, remoteCalled |-> called,
     fileWritten |-> written]

\* faulty variant: a failed AI request is returned to the caller
GenerateReportApiErrorReturned(res, file, responds, writable) ==
    LET l == LoadConfig(file)
    IN IF l.err # Nil
       THEN IF ErrorsIs(l.err, "ErrConfigNotFound")
            THEN ReportOutcome("returned", Nil, "AI config not found", FALSE, FALSE)
            ELSE ReportOutcome("returned", Join(Err("ErrReportGeneration", ""), l.err),
                               "none", FALSE, FALSE)
       ELSE IF AIConfigValidate(l.config) # Nil
       THEN ReportOutcome("returned", Nil, "Invalid AI config", FALSE, FALSE)
       ELSE IF FormatPanics(res)
       THEN ReportOutcome("panicked", Nil, "none", FALSE, FALSE)
       ELSE IF CallAPI(responds).err # Nil
       THEN ReportOutcome("returned",
                          Join(Err("ErrReportGeneration", ""), CallAPI(responds).err),
                          "none", TRUE, FALSE)
       ELSE IF ~writable
       THEN ReportOutcome("returned",
                          Join(Err("ErrReportWrite", ""), Err("permission denied", "")),
                          "none", TRUE, FALSE)
       ELSE ReportOutcome("returned", Nil, "none", TRUE, TRUE)

GenerateReport(res, file, responds, writable) ==
    LET l == LoadConfig(file)
    IN IF l.err # Nil
       THEN IF ErrorsIs(l.err, "ErrConfigNotFound")
            THEN ReportOutcome("returned", Nil, "AI config not found", FALSE, FALSE)
            ELSE ReportOutcome("returned", Join(Err("ErrReportGeneration", ""), l.err),
                               "none", FALSE, FALSE)
       ELSE IF AIConfigValidate(l.config) # Nil
       THEN ReportOutcome("returned", Nil, "Invalid AI config", FALSE, FALSE)
       ELSE IF FormatPanics(res)
       THEN ReportOutcome("panicked", Nil, "none", FALSE, FALSE)
       ELSE IF CallAPI(responds).err # Nil
       THEN ReportOutcome("returned", Nil, "Failed to generate AI report", TRUE, FALSE)
       ELSE IF ~writable
       THEN ReportOutcome("returned",
                          Join(Err("ErrReportWrite", ""), Err("permission denied", "")),
                          "none", TRUE, FALSE)
       ELSE ReportOutcome("returned", Nil, "none", TRUE, TRUE)

ConfigFiles ==
    {[state |-> st, config |-> NoAIConfig] :
        st \in {"nohome", "missing", "unreadable", "malformed"}}
    \cup {[state |-> "parsed", config |-> c] :
            c \in [Provider : Providers \cup {"", "llama"}, APIKey : {"", "sk-key"}]}

\* the result of a successful comparison of two tags with commit sets t1, t2
CompareResultOf(c, r, t1, t2) ==
    [Repo |-> r, Config |-> c,
     Similarity |-> CalculateJaccardSimilarity(MapOf(t1), MapOf(t2)),
     SharedCommits |-> Partition(MapOf(t1), MapOf(t2)).SharedCommits,
     OnlyInTag1 |-> Partition(MapOf(t1), MapOf(t2)).OnlyInTag1,
     OnlyInTag2 |-> Partition(MapOf(t1), MapOf(t2)).OnlyInTag2]

CommitSets == (SUBSET Commits) \ {{}}

RInit ==
    /\ JaccardIdle
    /\ PathIdle
    /\ FilterIdle
    /\ DirectIdle
    /\ PrintIdle
    /\ ConfigCommandIdle
    /\ objects = << >>
    /\ tagRefs = << >>
    /\ trees = << >>
    /\ gitVersion = "modern"
    /\ config = [RepoPath |-> "/repo", Tag1Name |-> "v1", Tag2Name |-> "v2", Verbose |-> FALSE]
    /\ pc = "idle"
    /\ repo = "nil"
    /\ fetchCalls = 0
    /\ tag1Ref = NilRef
    /\ tag2Ref = NilRef
    /\ tag1Commits = NilMap
    /\ tag2Commits = NilMap
    /\ \E r \in {"nil", "/repo"}, t1 \in CommitSets, t2 \in CommitSets :
          result = CompareResultOf(config, r, t1, t2)
    /\ err = Nil
    /\ configFile \in ConfigFiles
    /\ apiResponds \in BOOLEAN
    /\ writeSucceeds \in BOOLEAN
    /\ reportState = "idle"
    /\ reportErr = Nil
    /\ warning = "none"
    /\ remoteCalled = FALSE
    /\ fileWritten = FALSE

\* err := GenerateReport(result, reportPath)
CallGenerateReport ==
    /\ reportState = "idle"
    /\ LET g == GenerateReport(result, configFile, apiResponds, writeSucceeds)
       IN /\ reportState' = g.state
          /\ reportErr' = g.err
          /\ warning' = g.warning
          /\ remoteCalled' = g.remoteCalled
          /\ fileWritten' = g.fileWritten
    /\ UNCHANGED <<jvars, repovars, cvars, fvars, pvars, dvars, kvars, output, renv>>

RNext == CallGenerateReport

SpecReport == RInit /\ [][RNext]_vars

ConfigMissing == configFile.state = "missing"

\* the file holds an AIConfig that Validate rejects
ConfigFailsValidate ==
    configFile.state = "parsed" /\ AIConfigValidate(configFile.config) # Nil

\* the file is not the JSON of an AIConfig
ConfigMalformed == configFile.state = "malformed"

RemoteCallFailed == remoteCalled /\ ~apiResponds

SkippedWithWarning ==
    /\ reportState = "returned"
    /\ reportErr = Nil
    /\ ~fileWritten
    /\ warning # "none"

MockRefs == {[name |-> RefName(n), hash |-> h] : n \in {"v1", "v2"}, h \in Commits}

RECURSIVE RefListsUpTo(_)
RefListsUpTo(n) ==
    IF n = 0 THEN {<< >>}
    ELSE LET shorter == RefListsUpTo(n - 1)
         IN shorter \cup {Append(l, r) : l \in shorter, r \in MockRefs}

DInit ==
    /\ JaccardIdle
    /\ PathIdle
    /\ FilterIdle
    /\ ReportIdle
    /\ objects = << >>
    /\ tagRefs \in RefListsUpTo(MaxMockTags)
    /\ trees = << >>
    /\ gitVersion = "modern"
    /\ config \in [RepoPath : RepoPaths, Tag1Name : TagNameArgs,
                   Tag2Name : TagNameArgs, Verbose : {FALSE}]
    /\ pc = "idle"
    /\ repo = "mock"
    /\ fetchCalls = 0
    /\ tag1Ref = NilRef
    /\ tag2Ref = NilRef
    /\ tag1Commits = NilMap
    /\ tag2Commits = NilMap
    /\ result = ZeroResult(config)
    /\ err = Nil
    /\ DirectIdle
    /\ PrintIdle
    /\ ConfigCommandIdle

\* err := config.Validate()
CallValidate ==
    /\ "Validate" \notin directCalls
    /\ validateErr' = Validate(config)
    /\ directCalls' = directCalls \cup {"Validate"}
    /\ UNCHANGED <<jvars, repovars, cvars, fvars, pvars, rvars, kvars, output,
                   vwrErr, vwrFetches, gtrName, gtrFetchOk, gtrRef, gtrErr>>

\* err := config.ValidateWithRepository(repo)
CallValidateWithRepository ==
    /\ "ValidateWithRepository" \notin directCalls
    /\ \E ok \in BOOLEAN :
          LET v == ValidateWithRepository(config, ok)
          IN /\ vwrErr' = v.err
             /\ vwrFetches' = v.fetches
    /\ directCalls' = directCalls \cup {"ValidateWithRepository"}
    /\ UNCHANGED <<jvars, repovars, cvars, fvars, pvars, rvars, kvars, output,
                   validateErr, gtrName, gtrFetchOk, gtrRef, gtrErr>>

\* ref, err := config.GetTagReference(repo, tagName)
CallGetTagReference ==
    /\ "GetTagReference" \notin directCalls
    /\ \E tagName \in TagNameArgs, ok \in BOOLEAN :
          LET g == GetTagReference(tagName, ok)
          IN /\ gtrName' = tagName
             /\ gtrFetchOk' = ok
             /\ gtrRef' = g.ref
             /\ gtrErr' = g.err
    /\ directCalls' = directCalls \cup {"GetTagReference"}
    /\ UNCHANGED <<jvars, repovars, cvars, fvars, pvars, rvars, kvars, output,
                   validateErr, vwrErr, vwrFetches>>

DNext == CallValidate \/ CallValidateWithRepository \/ CallGetTagReference

SpecConfig == DInit /\ [][DNext]_vars

\* the first error of e
FirstKind(e) == IF e = Nil THEN "nil" ELSE e[1].kind

\* C17: Validate reports the first failure of a fixed order: empty RepoPath
\* gives ErrMissingRepo (also when the tag names are empty), else empty
\* Tag1Name gives ErrMissingTag1, else empty Tag2Name gives ErrMissingTag2,
\* else a RepoPath that does not exist gives ErrInvalidRepo, else nil.
C17_ValidateOrder ==
    "Validate" \in directCalls =>
        /\ FirstKind(validateErr) =
              (IF config.RepoPath = "" THEN "ErrMissingRepo"
               ELSE IF config.Tag1Name = "" THEN "ErrMissingTag1"
               ELSE IF config.Tag2Name = "" THEN "ErrMissingTag2"
               ELSE IF config.RepoPath = "/missing" THEN "ErrInvalidRepo"
               ELSE "nil")
        /\ \A k \in {"ErrMissingRepo", "ErrMissingTag1", "ErrMissingTag2", "ErrInvalidRepo"} :
              ErrorsIs(validateErr, k) => k = FirstKind(validateErr)

C17_Witness ==
    /\ "Validate" \in directCalls
    /\ config.RepoPath = ""
    /\ config.Tag1Name = ""
    /\ config.Tag2Name = ""
    /\ validateErr = Err("ErrMissingRepo", "")

\* C18: when Validate fails, ValidateWithRepository returns Validate's error
\* (ErrInvalidRepo for a RepoPath that does not exist) whatever tags the
\* repository holds, and FetchAllTags is not called.
C18_ValidateBeforeRepository ==
    ({"Validate", "ValidateWithRepository"} \subseteq directCalls /\ validateErr # Nil) =>
        /\ vwrErr = validateErr
        /\ vwrFetches = 0
        /\ (config.RepoPath = "/missing" /\ config.Tag1Name # "" /\ config.Tag2Name # "")
             => ErrorsIs(vwrErr, "ErrInvalidRepo")

\* the repository holds both tags, the path does not exist
C18_Witness ==
    /\ {"Validate", "ValidateWithRepository"} \subseteq directCalls
    /\ config.RepoPath = "/missing"
    /\ config.Tag1Name = "v1"
    /\ config.Tag2Name = "v2"
    /\ TagPresent("v1")
    /\ TagPresent("v2")
    /\ ErrorsIs(vwrErr, "ErrInvalidRepo")
    /\ vwrFetches = 0

\* the positions of the fetched list whose reference has the short name
Matches(tagName) == {i \in DOMAIN tagRefs : Short(tagRefs[i].name) = tagName}

\* C19: GetTagReference returns the first reference of the fetched list whose
\* short name is the name asked for, when there is one; it returns a nil
\* reference and an error when there is none or when FetchAllTags fails.
C19_GetTagReference ==
    "GetTagReference" \in directCalls =>
        IF gtrFetchOk /\ Matches(gtrName) # {}
        THEN /\ gtrErr = Nil
             /\ Short(gtrRef.name) = gtrName
             /\ \E i \in Matches(gtrName) :
                   /\ gtrRef = tagRefs[i]
                   /\ \A j \in Matches(gtrName) : i <= j
        ELSE /\ gtrErr # Nil
             /\ gtrRef = NilRef

\* two references share the short name and differ in their hash
C19_Witness ==
    /\ "GetTagReference" \in directCalls
    /\ gtrFetchOk
    /\ Cardinality(Matches(gtrName)) = 2
    /\ tagRefs[1].hash # tagRefs[2].hash
    /\ gtrRef = tagRefs[1]
    /\ gtrErr = Nil


(***************************************************************************)
(* The printed summary (checked under Spec)                                *)
(***************************************************************************)
\* C20: in the printed summary, "Total commits in [tag]" is the size of that
\* tag's whole commit set, that is the shared commits plus the commits unique
\* to the tag, for tag1 and for tag2.
C20_TotalIsWholeCommitSet ==
    output.summary =>
        /\ output.total1 = Cardinality(tag1Commits.keys)
        /\ output.total1 = output.shared + output.unique1
        /\ output.total2 = Cardinality(tag2Commits.keys)
        /\ output.total2 = output.shared + output.unique2


\* C21: with the verbose option, printing the result of a successful Compare
\* lists every commit unique to each tag and completes without a crash.
C21_VerbosePrintCompletes ==
    (pc \in {"printed", "panicked"} /\ result.Config.Verbose) =>
        /\ pc = "printed"
        /\ output.listed1 = Cardinality(result.OnlyInTag1.keys)
        /\ output.listed2 = Cardinality(result.OnlyInTag2.keys)


(***************************************************************************)
(* Tag resolution                                                          *)
(***************************************************************************)
\* the object at the end of the chain of annotated tags that starts at h
RECURSIVE Peel(_)
Peel(h) == IF ObjType(h) = "tag" THEN Peel(objects[h].target) ELSE h

\* the walk of the first tag has run
Tag1Walked ==
    /\ tag1Ref # NilRef
    /\ tag2Ref # NilRef
    /\ pc \in {"commits2", "similarity", "done", "printed", "panicked"}

\* C24: every tag reference resolves to exactly one commit, transitively: a
\* lightweight tag, an annotated tag on a commit and a chain of annotated
\* tags that ends in a commit all resolve, to the commit at the end of the
\* chain (seen through the commit set walked from it).
C24_ResolvesTransitively ==
    (Tag1Walked /\ ObjType(Peel(tag1Ref.hash)) = "commit") =>
        /\ ~ErrorsIs(err, "ErrDereferenceTag")
        /\ ~tag1Commits.isNil
        /\ tag1Commits.keys = Ancestors(Peel(tag1Ref.hash))


(***************************************************************************)
(* SpecResolve: GetCommitSetForTag, GetCommitSetForTagFilteredByDirectory  *)
(* and GetDiffBetweenTags called on lightweight tags, annotated tags and   *)
(* chains of annotated tags, ending in a commit or in the blob             *)
(***************************************************************************)
\* the tag stores in which both v1 and v2 exist
TwoTagStores == {t \in TagStores : Len(t.refs) = 2}

\* the file a/x is held by the odd commits
AlternatingTrees ==
    [c \in Commits |->
        [f \in TreePaths |-> IF f = <<"a", "/", "x">> /\ c % 2 = 1 THEN "v1" ELSE "absent"]]

XInit ==
    /\ JaccardIdle
    /\ PathIdle
    /\ ReportIdle
    /\ DirectIdle
    /\ PrintIdle
    /\ ConfigCommandIdle
    /\ \E commits \in CommitStores, tags \in TwoTagStores :
          /\ objects = commits @@ tags.objs
          /\ tagRefs = tags.refs
    /\ trees = AlternatingTrees
    /\ gitVersion \in GitVersions
    /\ config = [RepoPath |-> "/repo", Tag1Name |-> "v1", Tag2Name |-> "v2", Verbose |-> FALSE]
    /\ pc = "idle"
    /\ repo = "/repo"
    /\ fetchCalls = 0
    /\ tag1Ref = NilRef
    /\ tag2Ref = NilRef
    /\ tag1Commits = NilMap
    /\ tag2Commits = NilMap
    /\ result = ZeroResult(config)
    /\ err = Nil
    /\ directoryFilter \in {EmptyString, <<"a">>}
    /\ HistoryIdle

\* diffStat, err := repo.GetDiffBetweenTags(tag1, tag2, directory)
CallGetDiffBetweenTags ==
    /\ "diff" \notin histCalls
    /\ LET g == GetDiffBetweenTags(tagRefs[1], tagRefs[2], directoryFilter)
       IN /\ diffStat' = g.output
          /\ diffErr' = g.err
    /\ histCalls' = histCalls \cup {"diff"}
    /\ UNCHANGED <<jvars, repovars, cvars, pvars, rvars, dvars, kvars, output, directoryFilter,
                   plainCommits, plainErr, filteredCommits, filteredErr>>

XNext == CallGetCommitSetForTag \/ CallGetCommitSetForTagFiltered \/ CallGetDiffBetweenTags

SpecResolve == XInit /\ [][XNext]_vars

\* the reference is a valid commit under one of the two interpretations: an
\* annotated tag object on a commit, or a commit
YieldsCommit(ref) ==
    \/ ObjType(ref.hash) = "commit"
    \/ /\ ObjType(ref.hash) = "tag"
       /\ objects[ref.hash].targetType = "commit"
       /\ ObjType(objects[ref.hash].target) = "commit"

\* the error is the one resolveTagToCommit returns
IsDereferenceError(e) == e # Nil /\ e[1].kind = "ErrDereferenceTag"

\* C25: the resolution of a reference fails with ErrDereferenceTag exactly
\* when the reference yields a valid commit under neither interpretation;
\* then GetCommitSetForTag, GetCommitSetForTagFilteredByDirectory and
\* GetDiffBetweenTags return that error with a nil commit set or an empty
\* diff text, never a partial result.
C25_DereferenceFailure ==
    /\ "plain" \in histCalls =>
          /\ ErrorsIs(plainErr, "ErrDereferenceTag") <=> ~YieldsCommit(tagRefs[1])
          /\ ~YieldsCommit(tagRefs[1]) =>
                IsDereferenceError(plainErr) /\ plainCommits = NilMap
    /\ "filtered" \in histCalls =>
          /\ ErrorsIs(filteredErr, "ErrDereferenceTag") <=> ~YieldsCommit(tagRefs[1])
          /\ ~YieldsCommit(tagRefs[1]) =>
                IsDereferenceError(filteredErr) /\ filteredCommits = NilMap
    /\ "diff" \in histCalls =>
          /\ ErrorsIs(diffErr, "ErrDereferenceTag") <=>
                (~YieldsCommit(tagRefs[1]) \/ ~YieldsCommit(tagRefs[2]))
          /\ (~YieldsCommit(tagRefs[1]) \/ ~YieldsCommit(tagRefs[2])) =>
                IsDereferenceError(diffErr) /\ diffStat = {}

\* the three calls returned with the error; the first reference is on the
\* blob, the second on a chain of two annotated tags
C25_Witness ==
    /\ histCalls = {"plain", "filtered", "diff"}
    /\ ObjType(tagRefs[1].hash) = "blob"
    /\ ObjType(tagRefs[2].hash) = "tag"
    /\ objects[tagRefs[2].hash].targetType = "tag"
    /\ IsDereferenceError(plainErr)
    /\ IsDereferenceError(filteredErr)
    /\ IsDereferenceError(diffErr)
    /\ plainCommits = NilMap /\ filteredCommits = NilMap /\ diffStat = {}


(***************************************************************************)
(* The order of the stages of Compare                                      *)
(***************************************************************************)
\* the position of a stage in compare.go
StageRank(stage) ==
    CASE stage = "validate" -> 1
      [] stage = "open" -> 2
      [] stage = "validateTags" -> 3
      [] stage = "getTag1" -> 4
      [] stage = "getTag2" -> 5
      [] stage = "commits1" -> 6
      [] stage = "commits2" -> 7
      [] stage = "similarity" -> 8
      [] stage = "done" -> 9
      [] OTHER -> 10

\* the error Compare wraps the failure of a stage in
StageError(stage) ==
    CASE stage = "validate" -> "ErrInvalidConfiguration"
      [] stage = "open" -> "ErrOpenRepository"
      [] stage = "validateTags" -> "ErrValidationFailed"
      [] stage \in {"getTag1", "getTag2"} -> "ErrGetTagReference"
      [] stage \in {"commits1", "commits2"} -> "ErrGetCommits"
      [] OTHER -> "none"

\* C26: Compare performs its stages in the fixed order validate, open, tag
\* validation, tag1 lookup, tag2 lookup, tag1 walk, tag2 walk, similarity and
\* partition; every step either goes on to the next stage without an error,
\* or ends the call with the error of the stage that failed, leaving the
\* locals of the later stages as they were; no stage runs twice, and the
\* tag2 walk starts only after the tag1 walk returned a commit set.
C26_StagesInOrder ==
    [][pc' # pc =>
         \/ /\ StageRank(pc') = StageRank(pc) + 1
            /\ err = Nil
            /\ err' = Nil
            /\ pc' = "commits2" => ~tag1Commits'.isNil /\ tag2Commits'.isNil
         \/ /\ StageRank(pc) < StageRank("similarity")
            /\ pc' = "done"
            /\ err = Nil
            /\ err' # Nil
            /\ err'[1].kind = StageError(pc)
            /\ UNCHANGED <<repo, tag1Ref, tag2Ref, tag1Commits, tag2Commits, result>>]_vars

\* the second walk failed after the first one had finished
C26_Witness ==
    /\ pc = "done"
    /\ ErrorsIs(err, "ErrGetCommits")
    /\ tag1Ref # NilRef
    /\ tag2Ref # NilRef
    /\ ~tag1Commits.isNil
    /\ tag2Commits.isNil
    /\ result = ZeroResult(config)


(***************************************************************************)
(* The tag lookups of Compare after the tag validation                     *)
(***************************************************************************)
\* ValidateWithRepository returned nil in this call
TagsValidated ==
    \/ pc \in {"getTag1", "getTag2", "commits1", "commits2", "similarity"}
    \/ /\ pc \in {"done", "printed", "panicked"}
       /\ FirstKind(err) \notin {"ErrInvalidConfiguration", "ErrOpenRepository",
                                 "ErrValidationFailed"}

\* C28: within one Compare call on a tag list that does not change, once
\* ValidateWithRepository has succeeded, the two GetTagReference lookups
\* succeed and return references with the short names Tag1Name and Tag2Name
\* unless a FetchAllTags call fails: ErrGetTagReference is returned only with
\* the error of a failed fetch.
C28_LookupsSucceedAfterValidation ==
    TagsValidated =>
        /\ ErrorsIs(err, "ErrGetTagReference") => ErrorsIs(err, "ErrFetchTags")
        /\ (pc # "getTag1" /\ ~ErrorsIs(err, "ErrFetchTags")) =>
              /\ tag1Ref # NilRef
              /\ Short(tag1Ref.name) = config.Tag1Name
              /\ \E i \in DOMAIN tagRefs : tagRefs[i] = tag1Ref
        /\ (pc \notin {"getTag1", "getTag2"} /\ ~ErrorsIs(err, "ErrFetchTags")) =>
              /\ tag2Ref # NilRef
              /\ Short(tag2Ref.name) = config.Tag2Name
              /\ \E i \in DOMAIN tagRefs : tagRefs[i] = tag2Ref

\* both lookups returned, for two different tags, after three fetches
C28_Witness ==
    /\ pc = "commits1"
    /\ fetchCalls = 3
    /\ config.Tag1Name = "v2"
    /\ config.Tag2Name = "v1"
    /\ Short(tag1Ref.name) = "v2"
    /\ Short(tag2Ref.name) = "v1"
    /\ tag1Ref.hash # tag2Ref.hash


(***************************************************************************)
(* What Compare returns                                                    *)
(***************************************************************************)
\* C29: when Compare returns an error, the result carries the echoed
\* configuration only: Similarity is 0 and SharedCommits, OnlyInTag1 and
\* OnlyInTag2 are nil; when it returns no error, the three sets are non-nil
\* and the echoed configuration is the input configuration.
C29_ResultOnReturn ==
    pc = "done" =>
        IF err # Nil
        THEN /\ result.Config = config
             /\ result.Similarity = FloatZero
             /\ result.SharedCommits = NilMap
             /\ result.OnlyInTag1 = NilMap
             /\ result.OnlyInTag2 = NilMap
        ELSE /\ result.Config = config
             /\ ~result.SharedCommits.isNil
             /\ ~result.OnlyInTag1.isNil
             /\ ~result.OnlyInTag2.isNil

\* the error came after the first commit set had been walked
C29_Witness ==
    /\ pc = "done"
    /\ err # Nil
    /\ Cardinality(tag1Commits.keys) >= 2
    /\ result.SharedCommits = NilMap
    /\ result.Similarity = FloatZero
    /\ result.Config.Tag2Name = "v2"


(***************************************************************************)
(* SpecConfigCommand: one RunConfigCommand call (internal/config.go)       *)
(***************************************************************************)
\* the longest API key handed to the command
MaxKeyLen == 9

KeyAlphabet == {"s", "k"}

RECURSIVE KeysUpTo(_)
KeysUpTo(n) ==
    IF n = 0 THEN {EmptyString}
    ELSE LET shorter == KeysUpTo(n - 1)
         IN shorter \cup {Append(str, ch) : str \in shorter, ch \in KeyAlphabet}

\* the home directory: unknown, not writable for MkdirAll, not writable for
\* WriteFile, or fine
HomeDirs == {"nohome", "nomkdir", "nowrite", "ok"}

ConfigCommandValidate(c) ==
    IF c.Provider # "claude" /\ c.Provider # "openai" /\ c.Provider # "gemini"
    THEN Join(Err("ErrInvalidProvider", ""), Err("unsupported provider", c.Provider))
    ELSE IF c.APIKey = EmptyString THEN Err("ErrMissingAPIKey", "")
    ELSE Nil

\* SaveConfig: the error, and the content of config.json afterwards
SaveConfig(c, home, file) ==
    IF home = "nohome"
    THEN [err |-> Err("$HOME is not defined", ""), file |-> file]
    ELSE IF home = "nomkdir"
    THEN [err |-> Join(Err("ErrConfigDirCreation", ""), Err("permission denied", "")),
          file |-> file]
    ELSE IF home = "nowrite"
    THEN [err |-> Join(Err("ErrConfigFileWrite", ""), Err("permission denied", "")),
          file |-> file]
    ELSE [err |-> Nil, file |-> c]

\* RunConfigCommand: how it ends ("returned", or "panicked" when a slice
\* expression is out of range), its return, the config file and the output
RunConfigCommand(c, home, file) ==
    IF ConfigCommandValidate(c) # Nil
    THEN [state |-> "returned", err |-> ConfigCommandValidate(c), file |-> file,
          output |-> NoCommandOutput]
    ELSE LET aiConfig == [Provider |-> c.Provider, APIKey |-> c.APIKey]
             sv == SaveConfig(aiConfig, home, file)
             n == Len(aiConfig.APIKey)
         IN IF sv.err # Nil
            THEN [state |-> "returned", err |-> sv.err, file |-> sv.file,
                  output |-> NoCommandOutput]
            ELSE IF 8 > n \/ n - 4 < 0
            THEN [state |-> "panicked", err |-> Nil, file |-> sv.file,
                  output |-> [saved |-> TRUE, provider |-> aiConfig.Provider,
                              keyHead |-> EmptyString, keyTail |-> EmptyString]]
            ELSE [state |-> "returned", err |-> Nil, file |-> sv.file,
                  output |-> [saved |-> TRUE, provider |-> aiConfig.Provider,
                              keyHead |-> SubSeq(aiConfig.APIKey, 1, 8),
                              keyTail |-> SubSeq(aiConfig.APIKey, n - 4 + 1, n)]]

KInit ==
    /\ JaccardIdle
    /\ CompareIdle
    /\ FilterIdle
    /\ PathIdle
    /\ ReportIdle
    /\ DirectIdle
    /\ PrintIdle
    /\ cmdConfig \in [Provider : Providers \cup {"", "llama"}, APIKey : KeysUpTo(MaxKeyLen)]
    /\ homeDir \in HomeDirs
    /\ savedConfig = NoSavedConfig
    /\ cmdState = "idle"
    /\ cmdErr = Nil
    /\ cmdOutput = NoCommandOutput

\* err := RunConfigCommand(cmdConfig)
CallRunConfigCommand ==
    /\ cmdState = "idle"
    /\ LET r == RunConfigCommand(cmdConfig, homeDir, savedConfig)
       IN /\ cmdState' = r.state
          /\ cmdErr' = r.err
          /\ savedConfig' = r.file
          /\ cmdOutput' = r.output
    /\ UNCHANGED <<jvars, repovars, cvars, fvars, pvars, rvars, dvars, output,
                   cmdConfig, homeDir>>

KNext == CallRunConfigCommand

SpecConfigCommand == KInit /\ [][KNext]_vars

\* C30: RunConfigCommand with a supported provider and a non-empty API key
\* of any length saves the configuration and returns nil without crashing
\* (the home directory being writable); with an unsupported provider or an
\* empty API key it returns ErrInvalidProvider or ErrMissingAPIKey, the
\* provider being checked first, and the configuration is not saved.
C30_RunConfigCommand ==
    cmdState # "idle" =>
        IF cmdConfig.Provider \in Providers /\ cmdConfig.APIKey # EmptyString
        THEN homeDir = "ok" =>
                /\ cmdState = "returned"
                /\ cmdErr = Nil
                /\ savedConfig = cmdConfig
        ELSE /\ cmdState = "returned"
             /\ savedConfig = NoSavedConfig
             /\ FirstKind(cmdErr) = IF cmdConfig.Provider \notin Providers
                                    THEN "ErrInvalidProvider"
                                    ELSE "ErrMissingAPIKey"

====
